---- MODULE Spec2Model ----
(***************************************************************************)
(* A model of the numerical core of the registration library:              *)
(*   - the explicit Runge-Kutta integrators (pyreg/rungekutta_integrators) *)
(*   - the finite-difference engine (finite_differences.py)                *)
(*   - the Helmholtz regularizer (pyreg/regularizer_factory.py)            *)
(*   - the smoothers (pyreg/smoother_factory.py)                           *)
(* Real numbers are modelled exactly, as normalised fractions <<n, d>>     *)
(* with d > 0; floating-point rounding is outside the model.               *)
(***************************************************************************)
EXTENDS Integers, Sequences, FiniteSets, TLC

(***************************************************************************)
(* Bounds of the model.                                                    *)
(***************************************************************************)
\* largest configured number of time steps
MaxSteps == 3
\* time points fromT, toT, t are drawn from 0..MaxT
MaxT == 2
\* longest state list x
MaxArity == 2
\* longest axis of a field
MaxLen == 3
\* longest spacing array given to the constructor of an engine
MaxSpacingLen == 4
\* largest number of vector fields in a batch
MaxBatch == 2
\* largest number of calls made on one smoother
MaxCalls == 3
\* largest number of diffusion steps whose exact values are computed
MaxExactSteps == 10

(***************************************************************************)
(* Exact arithmetic on fractions.                                          *)
(***************************************************************************)
Abs(a) == IF a < 0 THEN -a ELSE a

RECURSIVE GCD(_, _)
GCD(a, b) == IF b = 0 THEN a ELSE GCD(b, a % b)

Norm(n, d) ==
    LET g == GCD(Abs(n), Abs(d))
        s == IF d < 0 THEN -1 ELSE 1
    IN  IF n = 0 THEN <<0, 1>> ELSE <<s * (n \div g), s * (d \div g)>>

RInt(n) == <<n, 1>>
Frac(n, d) == Norm(n, d)

RAdd(a, b) ==
    LET g == GCD(a[2], b[2])
        l == (a[2] \div g) * b[2]
    IN  Norm(a[1] * (l \div a[2]) + b[1] * (l \div b[2]), l)

RNeg(a) == <<-a[1], a[2]>>
RSub(a, b) == RAdd(a, RNeg(b))

RMul(a, b) ==
    LET p == Norm(a[1], b[2])
        q == Norm(b[1], a[2])
    IN  Norm(p[1] * q[1], p[2] * q[2])

\* b is not zero
RDiv(a, b) == RMul(a, Norm(b[2], b[1]))

Min(a, b) == IF a < b THEN a ELSE b

\* Op(x), with x evaluated once
Bind(x, Op(_)) == CHOOSE y \in {Op(z) : z \in {x}} : TRUE

\* the function f, with its values computed once
Stored(f) == f @@ <<>>

RECURSIVE SeqSum(_)
SeqSum(s) == IF s = <<>> THEN RInt(0) ELSE RAdd(s[1], SeqSum(Tail(s)))

(***************************************************************************)
(* Runge-Kutta integrators.                                                *)
(*                                                                         *)
(* A Python value passed as the state x is a record: kind tells whether it *)
(* is a list or another sequence type (a tuple), elems are its elements.   *)
(***************************************************************************)
VARIABLES
    rk,         \* the integrator object: cls, nrOfTimeSteps, f, u, pars
    rkPc,       \* "ready", "solving", "returned", "raised"
    rkCall,     \* the call in progress or last made, with its arguments
    rkX,        \* solve's local x
    rkT,        \* solve's local currentT
    rkDt,       \* solve's local dt
    rkI,        \* solve's loop index i
    rkStepLog,  \* the solve_one_step calls made by the current solve
    rkFLog,     \* the calls of the right-hand side f made by the current call
    rkRet,      \* the value returned
    rkErr,      \* the exception raised, "" when none
    rkArg,      \* the caller's list object that was passed as x, as it is now
    rkFirst     \* the state the first of two successive solve calls returned

varsRK ==
    <<rk, rkPc, rkCall, rkX, rkT, rkDt, rkI, rkStepLog, rkFLog, rkRet, rkErr,
      rkArg, rkFirst>>

\* the finite-difference engine and the call made on it
VARIABLES
    fdEngine,   \* the engine object, NoEngine before and after a failed construction
    fdPc,       \* "idle", "returned", "raised"
    fdCall,     \* the call last made: the constructor or an operator, with its arguments
    fdOut,      \* the field returned
    fdTerms,    \* the number of second differences lap summed
    fdErr,      \* the exception raised, "" when none
    fdArr       \* the caller's spacing array that was passed to the constructor

varsFD == <<fdEngine, fdPc, fdCall, fdOut, fdTerms, fdErr, fdArr>>

\* the regularizer object and the call made on it
VARIABLES
    reg,        \* the regularizer object, NoReg before and after a failed construction
    regPc,      \* "idle", "returned", "raised"
    regCall,    \* the call last made, with its arguments
    regRet,     \* the value returned
    regErr      \* the exception raised, "" when none

varsReg == <<reg, regPc, regCall, regRet, regErr>>

\* the smoother object and the call made on it
VARIABLES
    sm,         \* the smoother object, NoSmoother before and after a failed construction
    smPc,       \* "idle", "looping", "returned", "raised"
    smCall,     \* the call last made: its name, the smoother at its start, its argument
    smSv,       \* Sv of the diffusion loop
    smI,        \* the passes of the diffusion loop made
    smRet,      \* the field returned
    smErr,      \* the exception raised, "" when none
    smBuilds,   \* how often _create_filter was entered since construction
    smCalls     \* how many calls were made since construction on a smoother
                \* that caches a filter

varsSm == <<sm, smPc, smCall, smSv, smI, smRet, smErr, smBuilds, smCalls>>

\* the two factories and the call made on one of them
VARIABLES
    fac,        \* the SmootherFactory object, NoFactory before its construction
    rfac,       \* the RegularizerFactory object, NoFactory before its construction
    facPc,      \* "idle", "returned", "raised"
    facCall,    \* the call last made: its name and the configuration passed
    facSm,      \* the smoother create_smoother returned
    facReg,     \* the regularizer create_regularizer returned
    facErr,     \* the exception raised, "" when none
    facKept,    \* the smoother created before, which the caller still holds
    facLastSet  \* the type of the last set_default_smoother_type_to_* call

varsFac == <<fac, rfac, facPc, facCall, facSm, facReg, facErr, facKept, facLastSet>>

\* a Gaussian smoother shared by two threads
VARIABLES
    thSm,       \* the smoother object, NoSmoother before its construction
    thPc,       \* of every thread: "idle", "test", "create", "convolve",
                \* "returned", "raised"
    thCall,     \* of every thread: the call it makes, with its argument
    thRet,      \* of every thread: the field its call returned
    thBuilds    \* how often _create_filter was run since construction

varsThr == <<thSm, thPc, thCall, thRet, thBuilds>>

vars == <<varsRK, varsFD, varsReg, varsSm, varsFac, varsThr>>

\* what the actions of one component leave alone
othersRK == <<varsFD, varsReg, varsSm, varsFac, varsThr>>
othersFD == <<varsRK, varsReg, varsSm, varsFac, varsThr>>
othersReg == <<varsRK, varsFD, varsSm, varsFac, varsThr>>
othersSm == <<varsRK, varsFD, varsReg, varsFac, varsThr>>
othersFac == <<varsRK, varsFD, varsReg, varsSm, varsThr>>
othersThr == <<varsRK, varsFD, varsReg, varsSm, varsFac>>

PyList(s) == [kind |-> "list", elems |-> s]
PyTuple(s) == [kind |-> "tuple", elems |-> s]
NoValue == [kind |-> "none", elems |-> <<>>]

Classes == {"EulerForward", "RK4"}
\* right-hand sides a caller may supply; "short" and "long" return a list of
\* another length than x
FKinds == {"decay", "forced", "short", "long"}
UKinds == {"none", "ramp"}
ParsInputs == {<<>>, <<RInt(2)>>}

\* the caller's control input u(t, pars); "none": the default of __init__
U(kind, t, pars) ==
    IF kind = "none" THEN <<>>
    ELSE <<RMul(t, IF pars = <<>> THEN RInt(1) ELSE pars[1])>>

Decay(xs) == [i \in 1..Len(xs) |-> RMul(RInt(-4), xs[i])]

\* the caller's right-hand side f(t, x, u, pars), a list
F(kind, t, xs, u, pars) ==
    CASE kind = "decay" -> Decay(xs)
      [] kind = "forced" -> [i \in 1..Len(xs) |-> RAdd(t, SeqSum(u))]
      [] kind = "short" ->
            IF xs = <<>> THEN <<>> ELSE Decay(SubSeq(xs, 1, Len(xs) - 1))
      [] kind = "long" -> Append(Decay(xs), RInt(0))

\* one entry of rkFLog
FCall(o, t, xs) ==
    [t |-> t, x |-> xs, u |-> U(o.u, t, o.pars), pars |-> o.pars]

\* the value f returns for a logged call
FVal(o, c) == F(o.f, c.t, c.x, c.u, c.pars)

xpyts(x, y, v) ==
    [i \in 1..Min(Len(x), Len(y)) |-> RAdd(x[i], RMul(y[i], v))]

xts(x, v) == [i \in 1..Len(x) |-> RMul(x[i], v)]

xpy(x, y) == [i \in 1..Min(Len(x), Len(y)) |-> RAdd(x[i], y[i])]

\* the result of a call: a value or an exception, and the calls of f made
Returned(v, calls) == [ok |-> TRUE, val |-> PyList(v), err |-> "", calls |-> calls]
Raised(e, calls) == [ok |-> FALSE, val |-> NoValue, err |-> e, calls |-> calls]

\* mutant: the step size is left out of the update (xpy for xpyts)
EulerForward_solve_one_step_unscaled(o, x, t, dt) ==
    LET c1 == FCall(o, t, x.elems)
    IN  Returned(xpy(x.elems, FVal(o, c1)), <<c1>>)

EulerForward_solve_one_step(o, x, t, dt) ==
    LET c1 == FCall(o, t, x.elems)
    IN  Returned(xpyts(x.elems, FVal(o, c1), dt), <<c1>>)

\* mutant: the third stage is evaluated at the end of the step
RK4_solve_one_step_late_k3(o, x, t, dt) ==
    LET half == Frac(1, 2)
        c1 == FCall(o, t, x.elems)
        k1 == xts(FVal(o, c1), dt)
        c2 == FCall(o, RAdd(t, RMul(half, dt)), xpyts(x.elems, k1, half))
        k2 == xts(FVal(o, c2), dt)
        c3 == FCall(o, RAdd(t, dt), xpyts(x.elems, k2, half))
        k3 == xts(FVal(o, c3), dt)
        c4 == FCall(o, RAdd(t, dt), xpy(x.elems, k3))
        k4 == xts(FVal(o, c4), dt)
        n == Len(x.elems)
        calls == <<c1, c2, c3, c4>>
    IN  IF Len(k1) < n \/ Len(k2) < n \/ Len(k3) < n \/ Len(k4) < n
        THEN Raised("IndexError", calls)
        ELSE Returned(
                [i \in 1..n |->
                    RAdd(RAdd(RAdd(RAdd(x.elems[i],
                        RDiv(k1[i], RInt(6))), RDiv(k2[i], RInt(3))),
                        RDiv(k3[i], RInt(3))), RDiv(k4[i], RInt(6)))],
                calls)

RK4_solve_one_step(o, x, t, dt) ==
    LET half == Frac(1, 2)
        c1 == FCall(o, t, x.elems)
        k1 == xts(FVal(o, c1), dt)
        c2 == FCall(o, RAdd(t, RMul(half, dt)), xpyts(x.elems, k1, half))
        k2 == xts(FVal(o, c2), dt)
        c3 == FCall(o, RAdd(t, RMul(half, dt)), xpyts(x.elems, k2, half))
        k3 == xts(FVal(o, c3), dt)
        c4 == FCall(o, RAdd(t, dt), xpy(x.elems, k3))
        k4 == xts(FVal(o, c4), dt)
        n == Len(x.elems)
        calls == <<c1, c2, c3, c4>>
    IN  IF Len(k1) < n \/ Len(k2) < n \/ Len(k3) < n \/ Len(k4) < n
        THEN Raised("IndexError", calls)
        ELSE Returned(
                [i \in 1..n |->
                    RAdd(RAdd(RAdd(RAdd(x.elems[i],
                        RDiv(k1[i], RInt(6))), RDiv(k2[i], RInt(3))),
                        RDiv(k3[i], RInt(3))), RDiv(k4[i], RInt(6)))],
                calls)

solve_one_step(o, x, t, dt) ==
    IF o.cls = "EulerForward"
    THEN EulerForward_solve_one_step(o, x, t, dt)
    ELSE RK4_solve_one_step(o, x, t, dt)

\* mutant: the step is taken in place, the new state is stored into x
x_after_solve_one_step_in_place(o, x, t, dt) ==
    LET r == solve_one_step(o, x, t, dt)
    IN  IF r.ok THEN r.val ELSE x

\* the list object x after solve_one_step(x, t, dt): xpyts, xts and xpy build
\* their result with a list comprehension and RK4 appends to a new list xp1,
\* no statement stores into x (f is the caller's and leaves its arguments alone)
x_after_solve_one_step(o, x, t, dt) == x

\* mutant: one sample is always followed by the end point
linspace_two(a, b, num) ==
    IF num = 1 THEN <<a, b>>
    ELSE [k \in 1..num |-> RAdd(a, RMul(RInt(k - 1), RDiv(RSub(b, a), RInt(num - 1))))]

\* mutant: the samples leave out the end point b (endpoint=False)
linspace_open(a, b, num) ==
    [k \in 1..num |-> RAdd(a, RMul(RInt(k - 1), RDiv(RSub(b, a), RInt(num))))]

\* np.linspace(a, b, num): num evenly spaced samples, the last one b
linspace(a, b, num) ==
    IF num = 1 THEN <<a>>
    ELSE [k \in 1..num |-> RAdd(a, RMul(RInt(k - 1), RDiv(RSub(b, a), RInt(num - 1))))]

\* the state lists solve and solve_one_step are called with: <<>>, <<1>>,
\* <<1, -2>>, <<1, -2, 3>>, ... (distinct elements, so that order shows), and
\* one value that is a sequence but not a list
XElem(i) == RInt(IF i % 2 = 1 THEN i ELSE -i)
ListInputs == {[i \in 1..n |-> XElem(i)] : n \in 0..MaxArity}
XInputs == {PyList(s) : s \in ListInputs} \cup {PyTuple(<<RInt(1), RInt(-2)>>)}
TInputs == {RInt(k) : k \in 0..MaxT}
DtInputs == {Frac(k, 2) : k \in -1..MaxT}

\* the time intervals solve is called with: backward integration (toT < fromT)
\* is called with the right-hand side that keeps the values of the state small
SolveInput(o, fromT, toT) == fromT[1] <= toT[1] \/ o.f = "forced"

NoCall == [op |-> "none", x |-> NoValue, fromT |-> RInt(0), toT |-> RInt(0)]

RKInit ==
    /\ rk \in [cls : Classes, nrOfTimeSteps : 1..MaxSteps, f : FKinds,
               u : UKinds, pars : ParsInputs]
    /\ rkPc = "ready"
    /\ rkCall = NoCall
    /\ rkX = NoValue
    /\ rkT = RInt(0)
    /\ rkDt = RInt(0)
    /\ rkI = 0
    /\ rkStepLog = <<>>
    /\ rkFLog = <<>>
    /\ rkRet = NoValue
    /\ rkErr = ""
    /\ rkArg = NoValue
    /\ rkFirst = NoValue

set_number_of_time_steps ==
    /\ rkPc = "ready"
    /\ \E nr \in 0..MaxSteps : rk' = [rk EXCEPT !.nrOfTimeSteps = nr]
    /\ UNCHANGED <<rkPc, rkCall, rkX, rkT, rkDt, rkI, rkStepLog, rkFLog, rkRet, rkErr>>
    /\ UNCHANGED <<rkArg, rkFirst>>
    /\ UNCHANGED othersRK

\* solve(x, fromT, toT) up to the loop: the assertion and the step size; the
\* local x is bound to the caller's object
solve_entry(x, fromT, toT) ==
    LET timepoints == linspace(fromT, toT, rk.nrOfTimeSteps + 1)
    IN  /\ rkCall' = [op |-> "solve", x |-> x, fromT |-> fromT, toT |-> toT]
        /\ rkArg' = x
        /\ IF x.kind # "list"
           THEN /\ rkPc' = "raised"
                /\ rkErr' = "AssertionError"
                /\ UNCHANGED <<rkX, rkT, rkDt>>
           ELSE IF Len(timepoints) < 2
           THEN /\ rkPc' = "raised"
                /\ rkErr' = "IndexError"
                /\ UNCHANGED <<rkX, rkT, rkDt>>
           ELSE /\ rkPc' = "solving"
                /\ rkErr' = ""
                /\ rkX' = x
                /\ rkT' = fromT
                /\ rkDt' = RSub(timepoints[2], timepoints[1])
        /\ rkI' = 0
        /\ rkStepLog' = <<>>
        /\ rkFLog' = <<>>
        /\ rkRet' = NoValue

solve ==
    /\ rkPc = "ready"
    /\ \E x \in XInputs, fromT \in TInputs, toT \in TInputs :
        /\ SolveInput(rk, fromT, toT)
        /\ solve_entry(x, fromT, toT)
    /\ rkFirst' = NoValue
    /\ UNCHANGED rk
    /\ UNCHANGED othersRK

\* the caller, who kept the state a solve returned, calls solve once more with
\* the same list object and the same interval
solve_again ==
    /\ rkPc = "returned"
    /\ rkCall.op = "solve"
    /\ rkFirst = NoValue
    /\ solve_entry(rkArg, rkCall.fromT, rkCall.toT)
    /\ rkFirst' = rkRet
    /\ UNCHANGED rk
    /\ UNCHANGED othersRK

\* one iteration of solve's loop
solve_loop ==
    /\ rkPc = "solving"
    /\ rkI < rk.nrOfTimeSteps
    /\ LET r == solve_one_step(rk, rkX, rkT, rkDt)
       IN  /\ rkStepLog' = Append(rkStepLog, [x |-> rkX, t |-> rkT, dt |-> rkDt])
           /\ rkFLog' = rkFLog \o r.calls
           \* the first pass hands the caller's object on, the later ones
           \* the list the pass before returned
           /\ rkArg' = IF rkI = 0 THEN x_after_solve_one_step(rk, rkX, rkT, rkDt)
                                  ELSE rkArg
           /\ IF r.ok
              THEN /\ rkX' = r.val
                   /\ rkT' = RAdd(rkT, rkDt)
                   /\ rkI' = rkI + 1
                   /\ UNCHANGED <<rkPc, rkErr>>
              ELSE /\ rkPc' = "raised"
                   /\ rkErr' = r.err
                   /\ UNCHANGED <<rkX, rkT, rkI>>
    /\ UNCHANGED <<rk, rkCall, rkDt, rkRet, rkFirst>>
    /\ UNCHANGED othersRK

\* solve's return, after the loop
solve_return ==
    /\ rkPc = "solving"
    /\ rkI >= rk.nrOfTimeSteps
    /\ rkPc' = "returned"
    /\ rkRet' = rkX
    /\ UNCHANGED <<rk, rkCall, rkX, rkT, rkDt, rkI, rkStepLog, rkFLog, rkErr>>
    /\ UNCHANGED <<rkArg, rkFirst>>
    /\ UNCHANGED othersRK

\* a direct call of solve_one_step(x, t, dt)
call_solve_one_step ==
    /\ rkPc = "ready"
    /\ \E x \in XInputs, t \in TInputs, dt \in DtInputs :
        LET r == solve_one_step(rk, x, t, dt)
        IN  /\ rkCall' = [op |-> "solve_one_step", x |-> x, fromT |-> t, toT |-> t]
            /\ rkDt' = dt
            /\ rkT' = t
            /\ rkFLog' = r.calls
            /\ rkRet' = r.val
            /\ rkErr' = r.err
            /\ rkPc' = IF r.ok THEN "returned" ELSE "raised"
            /\ rkArg' = x_after_solve_one_step(rk, x, t, dt)
    /\ rkX' = NoValue
    /\ rkI' = 0
    /\ rkStepLog' = <<>>
    /\ rkFirst' = NoValue
    /\ UNCHANGED rk
    /\ UNCHANGED othersRK

\* the caller takes the result and drops the call's locals; the integrator,
\* which keeps no state of a call, is ready for the next one
rk_done ==
    /\ rkPc \in {"returned", "raised"}
    /\ rkPc' = "ready"
    /\ rkCall' = NoCall
    /\ rkX' = NoValue
    /\ rkT' = RInt(0)
    /\ rkDt' = RInt(0)
    /\ rkI' = 0
    /\ rkStepLog' = <<>>
    /\ rkFLog' = <<>>
    /\ rkRet' = NoValue
    /\ rkErr' = ""
    /\ rkArg' = NoValue
    /\ rkFirst' = NoValue
    /\ UNCHANGED rk
    /\ UNCHANGED othersRK

RKNext ==
    \/ set_number_of_time_steps
    \/ solve
    \/ solve_again
    \/ solve_loop
    \/ solve_return
    \/ call_solve_one_step
    \/ rk_done


(***************************************************************************)
(* Finite-difference engine.                                               *)
(*                                                                         *)
(* A field (a numpy array or a torch tensor) is a record: shape is the     *)
(* sequence of its axes' lengths, val maps every index, a sequence of      *)
(* 0-based positions, to the element there.                                *)
(***************************************************************************)
NoEngine == [cls |-> "none", dim |-> 0, spacing |-> <<>>, bcNeumannZero |-> TRUE]
NoField == [shape |-> <<>>, val |-> <<>>]

\* FD is the base class, whose backend hooks are not implemented
EngineClasses == {"FD", "FD_np", "FD_torch"}

Idx(shape) ==
    {idx \in [1..Len(shape) -> 0..(MaxLen - 1)] : \A a \in 1..Len(shape) : idx[a] < shape[a]}

\* the neighbours of idx along axis a
Up(idx, a) == [idx EXCEPT ![a] = @ + 1]
Down(idx, a) == [idx EXCEPT ![a] = @ - 1]

\* elementwise arithmetic of arrays of one shape
FSub(A, B) ==
    Bind(A, LAMBDA a : Bind(B, LAMBDA b :
        [shape |-> a.shape, val |-> Stored([idx \in DOMAIN a.val |-> RSub(a.val[idx], b.val[idx])])]))
FAdd(A, B) ==
    Bind(A, LAMBDA a : Bind(B, LAMBDA b :
        [shape |-> a.shape, val |-> Stored([idx \in DOMAIN a.val |-> RAdd(a.val[idx], b.val[idx])])]))
FScale(c, A) ==
    Bind(A, LAMBDA a :
        [shape |-> a.shape, val |-> Stored([idx \in DOMAIN a.val |-> RMul(c, a.val[idx])])])
FDivide(A, c) ==
    Bind(A, LAMBDA a :
        [shape |-> a.shape, val |-> Stored([idx \in DOMAIN a.val |-> RDiv(a.val[idx], c)])])

\* the result of an operator: a field or an exception
FRet(A) == [ok |-> TRUE, val |-> A, err |-> ""]
FErr(e) == [ok |-> FALSE, val |-> NoField, err |-> e]

\* the backend hooks; the base class's return None (here -1, <<>>, NoField)
getdimension(e, I) == IF e.cls = "FD" THEN -1 ELSE Len(I.shape)
get_size_of_array(e, A) == IF e.cls = "FD" THEN <<>> ELSE A.shape
create_zero_array(e, sz) ==
    IF e.cls = "FD" THEN NoField
    ELSE [shape |-> sz, val |-> [idx \in Idx(sz) |-> RInt(0)]]

\* mutant: the last slice along the axis is not assigned
ShiftPlus_no_edge(e, I, a) ==
    LET n == I.shape[a]
        r0 == create_zero_array(e, get_size_of_array(e, I))
    IN  FRet([r0 EXCEPT !.val = [idx \in DOMAIN r0.val |->
                IF idx[a] < n - 1 THEN I.val[Up(idx, a)] ELSE r0.val[idx]]])

\* the body of xp, yp, zp for axis a of I:
\*   r[..., 0:-1, ...] = I[..., 1:, ...], then the last slice along a
ShiftPlus(e, I, a) ==
    LET n == I.shape[a]
        r0 == create_zero_array(e, get_size_of_array(e, I))
        r1 == [idx \in DOMAIN r0.val |->
                IF idx[a] < n - 1 THEN I.val[Up(idx, a)] ELSE r0.val[idx]]
    IN  IF e.bcNeumannZero
        THEN FRet([r0 EXCEPT !.val = [idx \in DOMAIN r0.val |->
                    IF idx[a] = n - 1 THEN I.val[idx] ELSE r1[idx]]])
        ELSE IF n < 2 THEN FErr("IndexError")
        ELSE FRet([r0 EXCEPT !.val = [idx \in DOMAIN r0.val |->
                    IF idx[a] = n - 1
                    THEN RSub(RMul(RInt(2), I.val[idx]), I.val[Down(idx, a)])
                    ELSE r1[idx]]])

\* the body of xm, ym, zm for axis a of I:
\*   r[..., 1:, ...] = I[..., 0:-1, ...], then the first slice along a
ShiftMinus(e, I, a) ==
    LET r0 == create_zero_array(e, get_size_of_array(e, I))
        r1 == [idx \in DOMAIN r0.val |->
                IF idx[a] > 0 THEN I.val[Down(idx, a)] ELSE r0.val[idx]]
    IN  IF e.bcNeumannZero
        THEN FRet([r0 EXCEPT !.val = [idx \in DOMAIN r0.val |->
                    IF idx[a] = 0 THEN I.val[idx] ELSE r1[idx]]])
        ELSE IF I.shape[a] < 2 THEN FErr("IndexError")
        ELSE FRet([r0 EXCEPT !.val = [idx \in DOMAIN r0.val |->
                    IF idx[a] = 0
                    THEN RSub(RMul(RInt(2), I.val[idx]), I.val[Up(idx, a)])
                    ELSE r1[idx]]])

xp(e, I) ==
    IF getdimension(e, I) \in {1, 2, 3} THEN ShiftPlus(e, I, 1) ELSE FErr("ValueError")

xm(e, I) ==
    IF getdimension(e, I) \in {1, 2, 3} THEN ShiftMinus(e, I, 1) ELSE FErr("ValueError")

yp(e, I) ==
    IF getdimension(e, I) \in {2, 3} THEN ShiftPlus(e, I, 2) ELSE FErr("ValueError")

ym(e, I) ==
    IF getdimension(e, I) \in {2, 3} THEN ShiftMinus(e, I, 2) ELSE FErr("ValueError")

zp(e, I) ==
    IF getdimension(e, I) = 3 THEN ShiftPlus(e, I, 3) ELSE FErr("ValueError")

zm(e, I) ==
    IF getdimension(e, I) = 3 THEN ShiftMinus(e, I, 3) ELSE FErr("ValueError")

\* self.spacing[a - 1]: an IndexError when the engine has no such axis
Spacing(e, a, then) ==
    IF a > Len(e.spacing) THEN FErr("IndexError") ELSE then

\* mutant: the backward difference is not divided by the spacing
backward_undivided(e, I, m, a) ==
    IF ~m.ok THEN m
    ELSE Spacing(e, a, FRet(FSub(I, m.val)))

\* (I - m)/h, (p - I)/h, (p - m)/(2h), (p - 2I + m)/h**2: the shifts are
\* evaluated first, left to right, then the spacing is read
backward(e, I, m, a) ==
    IF ~m.ok THEN m
    ELSE Spacing(e, a, FRet(FDivide(FSub(I, m.val), e.spacing[a])))

forward(e, I, p, a) ==
    IF ~p.ok THEN p
    ELSE Spacing(e, a, FRet(FDivide(FSub(p.val, I), e.spacing[a])))

\* mutant: the central difference is divided by h, as the one-sided ones are
central_over_h(e, I, p, m, a) ==
    IF ~p.ok THEN p
    ELSE IF ~m.ok THEN m
    ELSE Spacing(e, a, FRet(FDivide(FSub(p.val, m.val), e.spacing[a])))

central(e, I, p, m, a) ==
    IF ~p.ok THEN p
    ELSE IF ~m.ok THEN m
    ELSE Spacing(e, a, FRet(FDivide(FSub(p.val, m.val), RMul(RInt(2), e.spacing[a]))))

\* mutant: the second difference is divided by 2h, as the central difference is
second_over_2h(e, I, p, m, a) ==
    IF ~p.ok THEN p
    ELSE IF ~m.ok THEN m
    ELSE Spacing(e, a, FRet(FDivide(FAdd(FSub(p.val, FScale(RInt(2), I)), m.val),
                                    RMul(RInt(2), e.spacing[a]))))

second(e, I, p, m, a) ==
    IF ~p.ok THEN p
    ELSE IF ~m.ok THEN m
    ELSE Spacing(e, a, FRet(FDivide(FAdd(FSub(p.val, FScale(RInt(2), I)), m.val),
                                    RMul(e.spacing[a], e.spacing[a]))))

dXb(e, I) == backward(e, I, xm(e, I), 1)
dXf(e, I) == forward(e, I, xp(e, I), 1)
dXc(e, I) == central(e, I, xp(e, I), xm(e, I), 1)
ddXc(e, I) == second(e, I, xp(e, I), xm(e, I), 1)
dYb(e, I) == backward(e, I, ym(e, I), 2)
dYf(e, I) == forward(e, I, yp(e, I), 2)
dYc(e, I) == central(e, I, yp(e, I), ym(e, I), 2)
ddYc(e, I) == second(e, I, yp(e, I), ym(e, I), 2)
dZb(e, I) == backward(e, I, zm(e, I), 3)
dZf(e, I) == forward(e, I, zp(e, I), 3)
dZc(e, I) == central(e, I, zp(e, I), zm(e, I), 3)
ddZc(e, I) == second(e, I, zp(e, I), zm(e, I), 3)

\* the second differences lap adds, in the order it evaluates them
lap_terms(e, I) ==
    LET ndim == getdimension(e, I)
    IN  CASE ndim = 1 -> <<ddXc(e, I)>>
          [] ndim = 2 -> <<ddXc(e, I), ddYc(e, I)>>
          [] ndim = 3 -> <<ddXc(e, I), ddYc(e, I), ddZc(e, I)>>
          [] OTHER -> <<FErr("ValueError")>>

RECURSIVE SumTerms(_)
SumTerms(ts) ==
    IF ~ts[1].ok THEN ts[1]
    ELSE IF Len(ts) = 1 THEN ts[1]
    ELSE LET rest == SumTerms(Tail(ts))
         IN  IF ~rest.ok THEN rest ELSE FRet(FAdd(ts[1].val, rest.val))

lap(e, I) == SumTerms(lap_terms(e, I))

ShiftOps == {"xp", "xm", "yp", "ym", "zp", "zm"}
DiffOps == {"dXb", "dXf", "dXc", "ddXc", "dYb", "dYf", "dYc", "ddYc",
            "dZb", "dZf", "dZc", "ddZc"}
FieldOps == ShiftOps \cup DiffOps \cup {"lap"}

Apply(op, e, I) ==
    CASE op = "xp" -> xp(e, I) [] op = "xm" -> xm(e, I)
      [] op = "yp" -> yp(e, I) [] op = "ym" -> ym(e, I)
      [] op = "zp" -> zp(e, I) [] op = "zm" -> zm(e, I)
      [] op = "dXb" -> dXb(e, I) [] op = "dXf" -> dXf(e, I)
      [] op = "dXc" -> dXc(e, I) [] op = "ddXc" -> ddXc(e, I)
      [] op = "dYb" -> dYb(e, I) [] op = "dYf" -> dYf(e, I)
      [] op = "dYc" -> dYc(e, I) [] op = "ddYc" -> ddYc(e, I)
      [] op = "dZb" -> dZb(e, I) [] op = "dZf" -> dZf(e, I)
      [] op = "dZc" -> dZc(e, I) [] op = "ddZc" -> ddZc(e, I)
      [] op = "lap" -> lap(e, I)

\* the spacing arrays an engine is constructed with: the first n of 3, 5, 7, ...
SpacingElem(a) == RInt(2 * a + 1)
SpacingInputs == {[a \in 1..n |-> SpacingElem(a)] : n \in 0..MaxSpacingLen}
\* the second argument of the constructor, when the caller gives one
PolicyArgs == {"omitted", "True", "False"}

\* the fields the operators are applied to
FieldKinds == {"linear", "square", "impulse"}
Coord(idx, a) == IF a <= Len(idx) THEN idx[a] ELSE 0
FieldValue(kind, shape, idx) ==
    LET i == Coord(idx, 1)
        j == Coord(idx, 2)
        k == Coord(idx, 3)
    IN  CASE kind = "linear" -> 1 + i + 2 * j + 3 * k
          [] kind = "square" -> 1 + i * i + 2 * j * j + 3 * k * k + i * j
          [] kind = "impulse" ->
                IF \A a \in 1..Len(shape) : idx[a] = shape[a] \div 2 THEN 1 ELSE 0
MkField(kind, shape) ==
    [shape |-> shape, val |-> [idx \in Idx(shape) |-> RInt(FieldValue(kind, shape, idx))]]
LenInputs == {1, 2, MaxLen}
Shapes ==
    UNION {[1..n -> LenInputs] : n \in 1..3} \cup {[a \in 1..4 |-> 1]}
FieldInputs == {MkField(kind, shape) : kind \in FieldKinds, shape \in Shapes}

NoFDCall == [op |-> "none", cls |-> "none", spacing |-> <<>>, policy |-> "omitted", I |-> NoField]

\* mutant: the constructor accepts a spacing of any size
FD_init_any_size(cls, spacing, bcNeumannZero) ==
    [ok |-> TRUE, err |-> "",
     val |-> [cls |-> cls, dim |-> Len(spacing), spacing |-> spacing,
              bcNeumannZero |-> bcNeumannZero]]

\* FD.__init__(self, spacing, bcNeumannZero)
FD_init(cls, spacing, bcNeumannZero) ==
    IF Len(spacing) \in {1, 2, 3}
    THEN [ok |-> TRUE, err |-> "",
          val |-> [cls |-> cls, dim |-> Len(spacing), spacing |-> spacing,
                   bcNeumannZero |-> bcNeumannZero]]
    ELSE [ok |-> FALSE, err |-> "ValueError", val |-> NoEngine]

\* FD_np.__init__(self, spacing) and FD_torch.__init__(self, spacing): a second
\* argument is a TypeError of the call; the policy is never passed on
Concrete_init(cls, spacing, policy) ==
    IF policy # "omitted"
    THEN [ok |-> FALSE, err |-> "TypeError", val |-> NoEngine]
    ELSE FD_init(cls, spacing, TRUE)

FDInit ==
    /\ fdEngine = NoEngine
    /\ fdPc = "idle"
    /\ fdCall = NoFDCall
    /\ fdOut = NoField
    /\ fdTerms = 0
    /\ fdErr = ""
    /\ fdArr = <<>>

\* the construction of an engine. The base class FD is abstract where the
\* interpreter honours __metaclass__ (TypeError); elsewhere it is constructed
\* with its hooks unimplemented
construct ==
    /\ fdPc = "idle"
    /\ fdEngine = NoEngine
    /\ \E cls \in EngineClasses, spacing \in SpacingInputs, policy \in PolicyArgs,
          abstract \in BOOLEAN :
        LET r == IF cls = "FD"
                 THEN IF abstract
                      THEN [ok |-> FALSE, err |-> "TypeError", val |-> NoEngine]
                      ELSE FD_init(cls, spacing, policy # "False")
                 ELSE Concrete_init(cls, spacing, policy)
        IN  /\ fdCall' = [NoFDCall EXCEPT !.op = "construct", !.cls = cls,
                                         !.spacing = spacing, !.policy = policy]
            /\ fdEngine' = r.val
            /\ fdErr' = r.err
            /\ fdPc' = IF r.ok THEN "returned" ELSE "raised"
            /\ fdArr' = spacing
    /\ UNCHANGED <<fdOut, fdTerms>>
    /\ UNCHANGED othersFD

\* one operator of the engine applied to a field
fd_apply ==
    /\ fdPc = "idle"
    /\ fdEngine # NoEngine
    /\ \E op \in FieldOps, I \in FieldInputs :
        LET r == Apply(op, fdEngine, I)
        IN  /\ fdCall' = [NoFDCall EXCEPT !.op = op, !.I = I]
            /\ fdOut' = r.val
            /\ fdErr' = r.err
            /\ fdPc' = IF r.ok THEN "returned" ELSE "raised"
            /\ fdTerms' = IF op = "lap" /\ r.ok THEN Len(lap_terms(fdEngine, I)) ELSE 0
    /\ UNCHANGED <<fdEngine, fdArr>>
    /\ UNCHANGED othersFD

\* the caller takes the result of the call
fd_done ==
    /\ fdPc \in {"returned", "raised"}
    /\ fdPc' = "idle"
    /\ fdCall' = NoFDCall
    /\ fdOut' = NoField
    /\ fdTerms' = 0
    /\ fdErr' = ""
    /\ UNCHANGED <<fdEngine, fdArr>>
    /\ UNCHANGED othersFD

\* the caller drops the engine
fd_release ==
    /\ fdPc = "idle"
    /\ fdEngine # NoEngine
    /\ fdEngine' = NoEngine
    /\ fdArr' = <<>>
    /\ UNCHANGED <<fdPc, fdCall, fdOut, fdTerms, fdErr>>
    /\ UNCHANGED othersFD

\* FD.__init__ binds self.spacing to the caller's array when it has three
\* elements (self.spacing = spacing); the branches for one and two elements
\* copy them into the engine's own np.ones(dim)
spacing_is_callers(e) == Len(e.spacing) = 3

\* the value the caller stores into its spacing array
WrittenSpacing == RInt(2)

\* between two calls the caller stores, once, into one element of the array
\* it passed to the constructor; an engine bound to that array sees the store
caller_writes_spacing ==
    /\ fdPc = "idle"
    /\ fdEngine # NoEngine
    /\ \A b \in 1..Len(fdArr) : fdArr[b] # WrittenSpacing
    /\ \E a \in 1..Len(fdArr) :
        /\ fdArr' = [fdArr EXCEPT ![a] = WrittenSpacing]
        /\ fdEngine' = IF spacing_is_callers(fdEngine)
                       THEN [fdEngine EXCEPT !.spacing = fdArr']
                       ELSE fdEngine
    /\ UNCHANGED <<fdPc, fdCall, fdOut, fdTerms, fdErr>>
    /\ UNCHANGED othersFD

FDNext ==
    \/ construct
    \/ fd_apply
    \/ fd_done
    \/ fd_release
    \/ caller_writes_spacing

(***************************************************************************)
(* Helmholtz regularizer.                                                  *)
(*                                                                         *)
(* A vector field is a tensor whose first axis counts the components, a    *)
(* batch one whose first axis counts the vector fields; tensors are        *)
(* records like fields.                                                    *)
(***************************************************************************)
NoReg == [cls |-> "none", spacing |-> <<>>, fdt |-> NoEngine,
          volumeElement |-> RInt(0), dim |-> 0, alpha |-> RInt(0), gamma |-> RInt(0)]

\* a value returned or an exception raised
VRet(x) == [ok |-> TRUE, val |-> x, err |-> ""]
VErr(e) == [ok |-> FALSE, val |-> RInt(0), err |-> e]

LongestAxis(shape) ==
    CHOOSE m \in {shape[a] : a \in DOMAIN shape} : \A a \in DOMAIN shape : shape[a] <= m

\* the indices of a tensor
TensorIdx(shape) ==
    {idx \in [1..Len(shape) -> 0..(LongestAxis(shape) - 1)] :
        \A a \in 1..Len(shape) : idx[a] < shape[a]}

\* v[i, ...]
Sub(v, i) ==
    [shape |-> Tail(v.shape),
     val |-> Stored([idx \in TensorIdx(Tail(v.shape)) |-> v.val[<<i>> \o idx]])]

\* A ** 2, elementwise
FSquare(A) ==
    Bind(A, LAMBDA a :
        [shape |-> a.shape, val |-> Stored([idx \in DOMAIN a.val |-> RMul(a.val[idx], a.val[idx])])])

\* the number of elements of a tensor
RECURSIVE Size(_)
Size(shape) == IF shape = <<>> THEN 1 ELSE shape[1] * Size(Tail(shape))

\* the k-th index of a tensor, counted from 0 in row-major order
IdxAt(shape, k) ==
    [a \in 1..Len(shape) |-> (k \div Size(SubSeq(shape, a + 1, Len(shape)))) % shape[a]]

\* the sum of the elements lo..hi of f, a tensor's values
RECURSIVE SumRange(_, _, _, _)
SumRange(f, shape, lo, hi) ==
    IF lo = hi THEN f[IdxAt(shape, lo)]
    ELSE Bind(SumRange(f, shape, lo, (lo + hi) \div 2),
              LAMBDA s : Bind(SumRange(f, shape, ((lo + hi) \div 2) + 1, hi),
                              LAMBDA t : RAdd(s, t)))

\* A.sum()
FSum(A) ==
    IF Size(A.shape) = 0 THEN RInt(0)
    ELSE Bind(Stored(A.val), LAMBDA f : SumRange(f, A.shape, 0, Size(A.shape) - 1))

\* spacing.prod()
RECURSIVE Prod(_)
Prod(s) == IF s = <<>> THEN RInt(1) ELSE RMul(s[1], Prod(Tail(s)))

\* Regularizer.__init__ and HelmholtzRegularizer.__init__; alpha and gamma are
\* what params yields for 'alpha' and 'gamma'
HelmholtzRegularizer_init(spacing, alpha, gamma) ==
    LET e == Concrete_init("FD_torch", spacing, "omitted")
    IN  IF ~e.ok THEN [ok |-> FALSE, err |-> e.err, val |-> NoReg]
        ELSE [ok |-> TRUE, err |-> "",
              val |-> [cls |-> "HelmholtzRegularizer", spacing |-> spacing,
                       fdt |-> e.val, volumeElement |-> Prod(spacing),
                       dim |-> Len(spacing), alpha |-> alpha, gamma |-> gamma]]

\* mutant: the two weights are exchanged
Lv_swapped(r, v, i, alpha, gamma) ==
    Bind(Sub(v, i), LAMBDA c : Bind(lap(r.fdt, c), LAMBDA l :
        IF ~l.ok THEN l ELSE FRet(FSub(FScale(alpha, c), FScale(gamma, l.val)))))

\* Lv[i, ...] = v[i, ...] * gamma - self.fdt.lap(v[i, ...]) * alpha
Lv(r, v, i, alpha, gamma) ==
    Bind(Sub(v, i), LAMBDA c : Bind(lap(r.fdt, c), LAMBDA l :
        IF ~l.ok THEN l ELSE FRet(FSub(FScale(gamma, c), FScale(alpha, l.val)))))

\* mutant: the components of Lv are added without being squared
RECURSIVE SumOfSquares_unsquared(_, _)
SumOfSquares_unsquared(L, n) ==
    IF n = 1 THEN L[1].val
    ELSE FAdd(SumOfSquares_unsquared(L, n - 1), L[n].val)

\* Lv[0, ...] ** 2 + ... + Lv[n - 1, ...] ** 2, L the components of Lv
RECURSIVE SumOfSquares(_, _)
SumOfSquares(L, n) ==
    IF n = 1 THEN FSquare(L[1].val)
    ELSE FAdd(SumOfSquares(L, n - 1), FSquare(L[n].val))

\* the body of _compute_regularizer_1d, _2d, _3d for n components:
\* (Lv[0, ...] ** 2 + ... + Lv[n - 1, ...] ** 2).sum() * self.volumeElement
NormOfLv(r, v, n, alpha, gamma) ==
    LET Norm2(L) ==
            IF \E i \in 1..n : ~L[i].ok
            THEN VErr(L[CHOOSE i \in 1..n : ~L[i].ok /\ \A j \in 1..(i - 1) : L[j].ok].err)
            ELSE VRet(RMul(FSum(SumOfSquares(L, n)), r.volumeElement))
    IN  Bind(Stored([i \in 1..n |-> Lv(r, v, i - 1, alpha, gamma)]), Norm2)

compute_regularizer_1d(r, v, alpha, gamma) == NormOfLv(r, v, 1, alpha, gamma)
compute_regularizer_2d(r, v, alpha, gamma) == NormOfLv(r, v, 2, alpha, gamma)
compute_regularizer_3d(r, v, alpha, gamma) == NormOfLv(r, v, 3, alpha, gamma)

\* HelmholtzRegularizer._compute_regularizer
compute_regularizer(r, v) ==
    CASE r.dim = 1 -> compute_regularizer_1d(r, v, r.alpha, r.gamma)
      [] r.dim = 2 -> compute_regularizer_2d(r, v, r.alpha, r.gamma)
      [] r.dim = 3 -> compute_regularizer_3d(r, v, r.alpha, r.gamma)
      [] OTHER -> VErr("ValueError")

\* the loop of compute_regularizer_multiN over the first n items, vals[k] the
\* value of _compute_regularizer(v[k - 1, ...]): reg = reg + vals[k], in turn
RECURSIVE multiN_loop(_, _)
multiN_loop(vals, n) ==
    IF n = 0 THEN VRet(RInt(0))
    ELSE Bind(multiN_loop(vals, n - 1),
              LAMBDA reg0 : IF ~reg0.ok THEN reg0
                            ELSE IF ~vals[n].ok THEN vals[n]
                            ELSE VRet(RAdd(reg0.val, vals[n].val)))

\* Regularizer.compute_regularizer_multiN
compute_regularizer_multiN(r, v) ==
    Bind(Stored([k \in 1..v.shape[1] |-> Bind(Sub(v, k - 1), LAMBDA item : compute_regularizer(r, item))]),
         LAMBDA vals : multiN_loop(vals, v.shape[1]))

\* what params yields for 'alpha' (0.2 when absent) and 'gamma' (1.0 when absent)
ParamAlphaInputs == {Frac(1, 5), RInt(0)}
ParamGammaInputs == {RInt(1), RInt(0)}
\* the arguments of set_alpha and set_gamma
AlphaInputs == {RInt(0), Frac(1, 5), RInt(1)}
GammaInputs == {RInt(0), RInt(1), RInt(2)}

\* the spacings a regularizer or a smoother is constructed with
GridSpacingKinds == {"unit", "mixed"}
GridSpacingElem(kind, a) ==
    IF kind = "unit" THEN RInt(1)
    ELSE CASE a = 1 -> Frac(1, 2) [] a = 2 -> RInt(2) [] OTHER -> RInt(1)
GridSpacingInputs ==
    {[a \in 1..n |-> GridSpacingElem(kind, a)] : kind \in GridSpacingKinds, n \in 0..MaxSpacingLen}

\* the grids of dimension d the fields live on
Grids(d) ==
    {[a \in 1..d |-> n] : n \in {1, 2}} \cup {[a \in 1..d |-> IF a = 1 THEN MaxLen ELSE 2]}

\* component c of a vector field
VecValue(kind, c, grid, idx) ==
    (IF c % 2 = 0 THEN -1 ELSE 1) * FieldValue(kind, grid, idx) + c
MkVec(kind, d, grid) ==
    [shape |-> <<d>> \o grid,
     val |-> Stored([t \in TensorIdx(<<d>> \o grid) |->
                        RInt(VecValue(kind, t[1], grid, Tail(t)))])]
MkBatch(kinds, d, grid) ==
    [shape |-> <<Len(kinds), d>> \o grid,
     val |-> Stored([t \in TensorIdx(<<Len(kinds), d>> \o grid) |->
                        RInt(VecValue(kinds[t[1] + 1], t[2], grid, Tail(Tail(t))))])]
\* the kinds of the items of a batch: none, or 1..MaxBatch kinds in turn
KindInTurn(i) == <<"linear", "square", "impulse">>[(i % 3) + 1]
BatchKinds ==
    {<<>>} \cup {[i \in 1..n |-> KindInTurn(first + i - 1)] : n \in 1..MaxBatch, first \in 0..2}

NoRegCall == [op |-> "none", spacing |-> <<>>, v |-> NoField]

RegInit ==
    /\ reg = NoReg
    /\ regPc = "idle"
    /\ regCall = NoRegCall
    /\ regRet = RInt(0)
    /\ regErr = ""

\* HelmholtzRegularizer(spacing, params)
reg_construct ==
    /\ regPc = "idle"
    /\ reg = NoReg
    /\ \E spacing \in GridSpacingInputs, alpha \in ParamAlphaInputs, gamma \in ParamGammaInputs :
        LET r == HelmholtzRegularizer_init(spacing, alpha, gamma)
        IN  /\ regCall' = [NoRegCall EXCEPT !.op = "construct", !.spacing = spacing]
            /\ reg' = r.val
            /\ regErr' = r.err
            /\ regPc' = IF r.ok THEN "returned" ELSE "raised"
    /\ UNCHANGED regRet
    /\ UNCHANGED othersReg

set_alpha ==
    /\ regPc = "idle"
    /\ reg # NoReg
    /\ \E alpha \in AlphaInputs : reg' = [reg EXCEPT !.alpha = alpha]
    /\ UNCHANGED <<regPc, regCall, regRet, regErr>>
    /\ UNCHANGED othersReg

set_gamma ==
    /\ regPc = "idle"
    /\ reg # NoReg
    /\ \E gamma \in GammaInputs : reg' = [reg EXCEPT !.gamma = gamma]
    /\ UNCHANGED <<regPc, regCall, regRet, regErr>>
    /\ UNCHANGED othersReg

\* _compute_regularizer(v) for one vector field on a grid of the regularizer's dimension
call_compute_regularizer ==
    /\ regPc = "idle"
    /\ reg # NoReg
    /\ \E kind \in FieldKinds, grid \in Grids(reg.dim) :
        \E v \in {MkVec(kind, reg.dim, grid)} : \E r \in {compute_regularizer(reg, v)} :
            /\ regCall' = [NoRegCall EXCEPT !.op = "compute_regularizer", !.v = v]
            /\ regRet' = r.val
            /\ regErr' = r.err
            /\ regPc' = IF r.ok THEN "returned" ELSE "raised"
    /\ UNCHANGED reg
    /\ UNCHANGED othersReg

\* compute_regularizer_multiN(v) for a batch of such vector fields
call_compute_regularizer_multiN ==
    /\ regPc = "idle"
    /\ reg # NoReg
    /\ \E kinds \in BatchKinds, grid \in Grids(reg.dim) :
        \E v \in {MkBatch(kinds, reg.dim, grid)} : \E r \in {compute_regularizer_multiN(reg, v)} :
            /\ regCall' = [NoRegCall EXCEPT !.op = "compute_regularizer_multiN", !.v = v]
            /\ regRet' = r.val
            /\ regErr' = r.err
            /\ regPc' = IF r.ok THEN "returned" ELSE "raised"
    /\ UNCHANGED reg
    /\ UNCHANGED othersReg

\* the caller takes the result of the call
reg_done ==
    /\ regPc \in {"returned", "raised"}
    /\ regPc' = "idle"
    /\ regCall' = NoRegCall
    /\ regRet' = RInt(0)
    /\ regErr' = ""
    /\ UNCHANGED reg
    /\ UNCHANGED othersReg

\* the caller drops the regularizer
reg_release ==
    /\ regPc = "idle"
    /\ reg # NoReg
    /\ reg' = NoReg
    /\ UNCHANGED <<regPc, regCall, regRet, regErr>>
    /\ UNCHANGED othersReg

RegNext ==
    \/ reg_construct
    \/ set_alpha
    \/ set_gamma
    \/ call_compute_regularizer
    \/ call_compute_regularizer_multiN
    \/ reg_done
    \/ reg_release

(***************************************************************************)
(* Smoothers.                                                              *)
(*                                                                         *)
(* The smoother is a record of the attributes of the three classes; an     *)
(* attribute that holds None, or that has not been set, is NoValue (0 for  *)
(* iter and gaussianStd, which the other classes never read).              *)
(* utils and custom_pytorch_extensions are not part of the sources: what   *)
(* their functions return is kept as the function's name and arguments.    *)
(***************************************************************************)
SmootherClasses == {"DiffusionSmoother", "GaussianSpatialSmoother", "GaussianFourierSmoother"}

NoSmoother ==
    [cls |-> "none", sz |-> <<>>, spacing |-> <<>>, fdt |-> NoEngine,
     volumeElement |-> RInt(0), dim |-> 0, iter |-> 0, k_sz_h |-> NoValue,
     filter |-> NoValue, k_sz |-> NoValue, smoothingKernel |-> NoValue,
     required_padding |-> NoValue, gaussianStd |-> RInt(0), FFilter |-> NoValue]

\* a Python int, and the value of a function of a module outside the sources
PyInt(n) == [kind |-> "int", elems |-> <<n>>]
External(name, args) == [kind |-> name, elems |-> args]

\* the outcome of a call on the smoother s: the field returned or the exception
\* raised, the smoother afterwards, and how often _create_filter was entered
SRet(s, A, built) == [ok |-> TRUE, val |-> A, err |-> "", sm |-> s, built |-> built]
SErr(s, e, built) == [ok |-> FALSE, val |-> NoField, err |-> e, sm |-> s, built |-> built]

\* Smoother.__init__(self, sz, spacing, params)
Smoother_init(cls, sz, spacing) ==
    LET e == Concrete_init("FD_torch", spacing, "omitted")
    IN  IF ~e.ok THEN [ok |-> FALSE, err |-> e.err, val |-> NoSmoother]
        ELSE [ok |-> TRUE, err |-> "",
              val |-> [NoSmoother EXCEPT !.cls = cls, !.sz = sz, !.spacing = spacing,
                                         !.fdt = e.val, !.volumeElement = Prod(spacing),
                                         !.dim = Len(spacing)]]

\* DiffusionSmoother.__init__, iter what params yields for 'iter'
DiffusionSmoother_init(sz, spacing, iter) ==
    LET b == Smoother_init("DiffusionSmoother", sz, spacing)
    IN  IF ~b.ok THEN b ELSE [b EXCEPT !.val.iter = iter]

\* GaussianSpatialSmoother.__init__, k_sz_h what params yields for 'k_sz_h'
GaussianSpatialSmoother_init(sz, spacing, k_sz_h) ==
    LET b == Smoother_init("GaussianSpatialSmoother", sz, spacing)
    IN  IF ~b.ok THEN b ELSE [b EXCEPT !.val.k_sz_h = k_sz_h, !.val.filter = NoValue]

\* GaussianFourierSmoother.__init__, gaussianStd what params yields for 'gaussian_std'
GaussianFourierSmoother_init(sz, spacing, gaussianStd) ==
    LET b == Smoother_init("GaussianFourierSmoother", sz, spacing)
    IN  IF ~b.ok THEN b ELSE [b EXCEPT !.val.gaussianStd = gaussianStd, !.val.FFilter = NoValue]

\* a <= b, for fractions
RLeq(a, b) == RSub(b, a)[1] >= 0

\* spacing.min()
SpacingMin(spacing) ==
    CHOOSE m \in {spacing[a] : a \in DOMAIN spacing} : \A a \in DOMAIN spacing : RLeq(m, spacing[a])

\* mutant: the number of passes does not grow with the dimension
Steps_iter_only(s) == s.iter

\* range(0, self.iter*2**self.dim)
Steps(s) == s.iter * 2^(s.dim)

\* mutant: the step is not multiplied with the smallest spacing squared
diffusion_step_no_spacing(s, Sv) ==
    Bind(lap(s.fdt, Sv), LAMBDA l :
        IF ~l.ok THEN l
        ELSE FRet(FAdd(Sv, FScale(Frac(1, 2 * 2^(s.dim)), l.val))))

\* mutant: the step keeps only the increment
diffusion_step_increment(s, Sv) ==
    Bind(lap(s.fdt, Sv), LAMBDA l :
        IF ~l.ok THEN l
        ELSE FRet(FScale(RMul(SpacingMin(s.spacing), SpacingMin(s.spacing)),
                         FScale(Frac(1, 2 * 2^(s.dim)), l.val))))

\* mutant: the step is not divided by 2^dim
diffusion_step_undivided(s, Sv) ==
    Bind(lap(s.fdt, Sv), LAMBDA l :
        IF ~l.ok THEN l
        ELSE FRet(FAdd(Sv, FScale(RMul(SpacingMin(s.spacing), SpacingMin(s.spacing)),
                                  FScale(Frac(1, 2), l.val)))))

\* the body of the loop of DiffusionSmoother.smooth_scalar_field:
\*   Sv + 0.5/(2**self.dim)*self.fdt.lap(Sv)*self.spacing.min()**2
diffusion_step(s, Sv) ==
    Bind(lap(s.fdt, Sv), LAMBDA l :
        IF ~l.ok THEN l
        ELSE FRet(FAdd(Sv, FScale(RMul(SpacingMin(s.spacing), SpacingMin(s.spacing)),
                                  FScale(Frac(1, 2 * 2^(s.dim)), l.val)))))

\* DiffusionSmoother.inverse_smooth_scalar_field
DiffusionSmoother_inverse_smooth_scalar_field(s, v) == SErr(s, "ValueError", 0)

\* GaussianSpatialSmoother._create_filter: k_sz_h, sz and k_sz are names the
\* method does not define
GaussianSpatialSmoother_create_filter(s) ==
    IF s.k_sz_h # NoValue THEN SErr(s, "NameError", 1)
    ELSE LET k_sz == [a \in 1..s.dim |-> 2 * 5 + 1]
             s1 == [s EXCEPT !.k_sz = k_sz,
                             !.smoothingKernel =
                                 External("compute_normalized_gaussian",
                                          <<External("identity_map", <<k_sz>>),
                                            [a \in 1..s.dim |-> RInt(0)],
                                            [a \in 1..s.dim |-> RInt(1)]>>),
                             !.required_padding = [a \in 1..s.dim |-> (k_sz[a] - 1) \div 2]]
         IN  SErr(s1, "NameError", 1)

\* GaussianSpatialSmoother._filter_input_with_padding, for a filter that was set
filter_input_with_padding(s, I) ==
    IF s.dim \in {1, 2, 3}
    THEN [shape |-> I.shape,
          val |-> External("conv", <<External("pad", <<I.val, s.required_padding>>), s.filter>>)]
    ELSE NoField

\* GaussianSpatialSmoother.smooth_scalar_field
GaussianSpatialSmoother_smooth_scalar_field(s, v) ==
    IF s.filter = NoValue
    THEN LET c == GaussianSpatialSmoother_create_filter(s)
         IN  IF ~c.ok THEN c ELSE SRet(c.sm, filter_input_with_padding(c.sm, v), c.built)
    ELSE SRet(s, filter_input_with_padding(s, v), 0)

\* GaussianSpatialSmoother.inverse_smooth_scalar_field
GaussianSpatialSmoother_inverse_smooth_scalar_field(s, v) == SErr(s, "ValueError", 0)

\* GaussianFourierSmoother._create_filter
GaussianFourierSmoother_create_filter(s) ==
    [s EXCEPT !.FFilter =
        External("create_complex_fourier_filter",
                 <<External("compute_normalized_gaussian",
                            <<External("identity_map", <<s.sz>>),
                              [a \in 1..s.dim |-> RInt(0)],
                              [a \in 1..s.dim |-> s.gaussianStd]>>),
                   s.sz>>)]

\* the field a function of ce returns for the field v and the filter: its
\* element at idx is kept as the function's name, its arguments and idx
Convolved(name, v, FFilter) ==
    [shape |-> v.shape,
     val |-> Stored([idx \in DOMAIN v.val |-> External(name, <<v.val, FFilter, idx>>)])]

\* mutant: the filter is built by every call
GaussianFourierSmoother_convolve_rebuilding(s, v, name) ==
    LET s1 == GaussianFourierSmoother_create_filter(s)
    IN  SRet(s1, Convolved(name, v, s1.FFilter), 1)

\* the body GaussianFourierSmoother.smooth_scalar_field and
\* inverse_smooth_scalar_field share, name the function of ce they call
GaussianFourierSmoother_convolve(s, v, name) ==
    LET build == s.FFilter = NoValue
        s1 == IF build THEN GaussianFourierSmoother_create_filter(s) ELSE s
    IN  SRet(s1, Convolved(name, v, s1.FFilter), IF build THEN 1 ELSE 0)

\* mutant: the inverse calls the forward convolution
GaussianFourierSmoother_inverse_smooth_scalar_field_forward(s, v) ==
    GaussianFourierSmoother_convolve(s, v, "fourier_convolution")

GaussianFourierSmoother_smooth_scalar_field(s, v) ==
    GaussianFourierSmoother_convolve(s, v, "fourier_convolution")
GaussianFourierSmoother_inverse_smooth_scalar_field(s, v) ==
    GaussianFourierSmoother_convolve(s, v, "inverse_fourier_convolution")

\* n passes of the loop of DiffusionSmoother.smooth_scalar_field, from Sv: the
\* first half of the passes, then the others
RECURSIVE diffusion_loop(_, _, _)
diffusion_loop(s, Sv, n) ==
    IF n <= 0 THEN FRet(Sv)
    ELSE IF n = 1
    THEN Bind(diffusion_step(s, Sv), LAMBDA r :
            IF ~r.ok THEN r ELSE FRet([shape |-> r.val.shape, val |-> Stored(r.val.val)]))
    ELSE Bind(diffusion_loop(s, Sv, n \div 2), LAMBDA h :
            IF ~h.ok THEN h ELSE diffusion_loop(s, h.val, n - n \div 2))

\* DiffusionSmoother.smooth_scalar_field: Sv = v.clone(), the loop, return Sv
DiffusionSmoother_smooth_scalar_field(s, v) ==
    Bind(diffusion_loop(s, v, Steps(s)), LAMBDA r :
        IF r.ok THEN SRet(s, r.val, 0) ELSE SErr(s, r.err, 0))

\* the method the class of s binds to smooth_scalar_field
smooth_scalar_field(s, v) ==
    CASE s.cls = "DiffusionSmoother" -> DiffusionSmoother_smooth_scalar_field(s, v)
      [] s.cls = "GaussianSpatialSmoother" -> GaussianSpatialSmoother_smooth_scalar_field(s, v)
      [] s.cls = "GaussianFourierSmoother" -> GaussianFourierSmoother_smooth_scalar_field(s, v)

\* the tensor of the given shape whose slices along the leading axis are
\* parts; a slice that was not assigned holds what the allocation left there
Stacked(shape, parts) ==
    [shape |-> shape,
     val |-> Stored([t \in TensorIdx(shape) |->
                        IF t[1] < Len(parts) THEN parts[t[1] + 1][Tail(t)]
                        ELSE External("uninitialized", <<>>)])]

\* the loops of smooth_vector_field, smooth_vector_field_multiN,
\* smooth_scalar_field_multiC and smooth_scalar_field_multiNC,
\*   for k in range(n): out[k, ...] = self.method(v[k, ...])
\* from k on; parts are the slices assigned to out so far. v[k, ...] is an
\* IndexError when v has no slice k
RECURSIVE smooth_loop(_, _, _, _, _, _, _)
RECURSIVE smooth_vector_field(_, _)
RECURSIVE smooth_scalar_field_multiC(_, _)
smooth_loop(s, v, method, n, k, parts, built) ==
    IF k = n THEN SRet(s, Stacked(v.shape, parts), built)
    ELSE IF v.shape = <<>> \/ k >= v.shape[1] THEN SErr(s, "IndexError", built)
    ELSE Bind(CASE method = "smooth_scalar_field" -> smooth_scalar_field(s, Sub(v, k))
                [] method = "smooth_vector_field" -> smooth_vector_field(s, Sub(v, k))
                [] method = "smooth_scalar_field_multiC" ->
                        smooth_scalar_field_multiC(s, Sub(v, k)),
              LAMBDA r :
                IF ~r.ok THEN SErr(r.sm, r.err, built + r.built)
                ELSE smooth_loop(r.sm, v, method, n, k + 1, Append(parts, r.val.val),
                                 built + r.built))

\* Smoother.smooth_vector_field
smooth_vector_field(s, v) ==
    IF s.dim = 1 THEN smooth_scalar_field(s, v)
    ELSE smooth_loop(s, v, "smooth_scalar_field", s.dim, 0, <<>>, 0)

\* Smoother.smooth_vector_field_multiN
smooth_vector_field_multiN(s, v) ==
    smooth_loop(s, v, "smooth_vector_field", v.shape[1], 0, <<>>, 0)

\* Smoother.smooth_scalar_field_multiC
smooth_scalar_field_multiC(s, I) ==
    smooth_loop(s, I, "smooth_scalar_field", I.shape[1], 0, <<>>, 0)

\* Smoother.smooth_scalar_field_multiNC
smooth_scalar_field_multiNC(s, I) ==
    smooth_loop(s, I, "smooth_scalar_field_multiC", I.shape[1], 0, <<>>, 0)

\* the method the class of s binds to inverse_smooth_scalar_field
inverse_smooth_scalar_field(s, v) ==
    CASE s.cls = "DiffusionSmoother" -> DiffusionSmoother_inverse_smooth_scalar_field(s, v)
      [] s.cls = "GaussianSpatialSmoother" -> GaussianSpatialSmoother_inverse_smooth_scalar_field(s, v)
      [] s.cls = "GaussianFourierSmoother" -> GaussianFourierSmoother_inverse_smooth_scalar_field(s, v)

\* the loop of inverse_smooth_vector_field from component d on, parts the
\* components assigned to ISv so far
RECURSIVE inverse_components(_, _, _, _, _)
inverse_components(s, v, d, parts, built) ==
    IF d = s.dim THEN SRet(s, Stacked(v.shape, parts), built)
    ELSE LET r == inverse_smooth_scalar_field(s, Sub(v, d))
         IN  IF ~r.ok THEN SErr(r.sm, r.err, built + r.built)
             ELSE inverse_components(r.sm, v, d + 1, Append(parts, r.val.val), built + r.built)

\* Smoother.inverse_smooth_vector_field
inverse_smooth_vector_field(s, v) ==
    IF s.dim = 1 THEN inverse_smooth_scalar_field(s, v)
    ELSE inverse_components(s, v, 0, <<>>, 0)

\* the loop of inverse_smooth_vector_field_multiN from item nrI on
RECURSIVE inverse_items(_, _, _, _, _)
inverse_items(s, v, nrI, items, built) ==
    IF nrI = v.shape[1] THEN SRet(s, Stacked(v.shape, items), built)
    ELSE LET r == inverse_smooth_vector_field(s, Sub(v, nrI))
         IN  IF ~r.ok THEN SErr(r.sm, r.err, built + r.built)
             ELSE inverse_items(r.sm, v, nrI + 1, Append(items, r.val.val), built + r.built)

\* Smoother.inverse_smooth_vector_field_multiN
inverse_smooth_vector_field_multiN(s, v) == inverse_items(s, v, 0, <<>>, 0)

\* what params yields for 'iter' (5 when absent), 'k_sz_h' (None when absent)
\* and 'gaussian_std' (0.15 when absent)
DefaultIter == 5
ParamIterInputs == {DefaultIter, 1}
ParamKszhInputs == {NoValue, PyInt(3)}
ParamStdInputs == {Frac(3, 20), RInt(1)}
ParamInputs(cls) ==
    CASE cls = "DiffusionSmoother" -> ParamIterInputs
      [] cls = "GaussianSpatialSmoother" -> ParamKszhInputs
      [] cls = "GaussianFourierSmoother" -> ParamStdInputs
\* the arguments of set_iter, set_k_sz_h and set_gaussian_std
IterInputs == {0, 1, 2}
KszhInputs == {PyInt(1), PyInt(3)}
StdInputs == {Frac(3, 20), Frac(1, 2), RInt(1)}

\* the spacings a smoother is constructed with: 1, 1, ... and 2, 4, 4, ...
SmSpacingKinds == {"unit", "wide"}
SmSpacingElem(kind, a) ==
    IF kind = "unit" THEN RInt(1) ELSE IF a = 1 THEN RInt(2) ELSE RInt(4)
SmSpacingInputs ==
    {[a \in 1..n |-> SmSpacingElem(kind, a)] : kind \in SmSpacingKinds, n \in 0..MaxSpacingLen}

\* the smoother of class cls that the caller constructs
new_smoother(cls, sz, spacing, p) ==
    CASE cls = "DiffusionSmoother" -> DiffusionSmoother_init(sz, spacing, p)
      [] cls = "GaussianSpatialSmoother" -> GaussianSpatialSmoother_init(sz, spacing, p)
      [] cls = "GaussianFourierSmoother" -> GaussianFourierSmoother_init(sz, spacing, p)

\* the grids of dimension d whose fields are diffused
SmGrids(d) ==
    CASE d = 1 -> {<<1>>, <<2>>, <<3>>}
      [] d = 2 -> {<<2, 2>>, <<3, 2>>, <<3, 3>>}
      [] d = 3 -> {<<2, 2, 2>>, <<2, 1, 2>>}

\* the shapes of the fields a diffusion smoother is called with: the grids of
\* its dimension and a field of one more axis, as long as the exact values of
\* all steps fit the integers of the model; a single point beyond that
DiffusionShapes(s) ==
    LET uniform == \A a \in DOMAIN s.spacing : s.spacing[a] = s.spacing[1]
    IN  IF Steps(s) <= (IF uniform THEN MaxExactSteps ELSE MaxExactSteps \div 2)
        THEN SmGrids(s.dim) \cup {[a \in 1..(s.dim + 1) |-> 2]}
        ELSE {[a \in 1..s.dim |-> 1]}

\* the grids whose vector fields and batches a smoother is called with: for
\* a diffusion smoother the ones of at most two points along every axis
VectorGrids(s) ==
    IF s.cls = "DiffusionSmoother"
    THEN {g \in DiffusionShapes(s) : Len(g) = s.dim /\ \A a \in DOMAIN g : g[a] <= 2}
    ELSE {s.sz}
\* the numbers of channels of an image
ChannelInputs == {1, 2}

\* orig is the field the caller smoothed to get v, when v is the result of a
\* smoothing call passed on to the inverse method
NoSmCall == [op |-> "none", self |-> NoSmoother, v |-> NoField, orig |-> NoField]

SmInit ==
    /\ sm = NoSmoother
    /\ smPc = "idle"
    /\ smCall = NoSmCall
    /\ smSv = NoField
    /\ smI = 0
    /\ smRet = NoField
    /\ smErr = ""
    /\ smBuilds = 0
    /\ smCalls = 0

\* DiffusionSmoother(sz, spacing, params) and the two Gaussian classes alike
sm_construct ==
    /\ smPc = "idle"
    /\ sm = NoSmoother
    /\ \E cls \in SmootherClasses, spacing \in SmSpacingInputs, n \in {1, 2} :
        \E p \in ParamInputs(cls) :
            LET r == new_smoother(cls, [a \in 1..Len(spacing) |-> n], spacing, p)
            IN  /\ smCall' = [NoSmCall EXCEPT !.op = "construct"]
                /\ sm' = r.val
                /\ smErr' = r.err
                /\ smPc' = IF r.ok THEN "returned" ELSE "raised"
    /\ smBuilds' = 0
    /\ smCalls' = 0
    /\ UNCHANGED <<smSv, smI, smRet>>
    /\ UNCHANGED othersSm

set_iter ==
    /\ smPc = "idle"
    /\ sm.cls = "DiffusionSmoother"
    /\ \E iter \in IterInputs : sm' = [sm EXCEPT !.iter = iter]
    /\ UNCHANGED <<smPc, smCall, smSv, smI, smRet, smErr, smBuilds, smCalls>>
    /\ UNCHANGED othersSm

set_k_sz_h ==
    /\ smPc = "idle"
    /\ sm.cls = "GaussianSpatialSmoother"
    /\ \E k_sz_h \in KszhInputs : sm' = [sm EXCEPT !.k_sz_h = k_sz_h]
    /\ UNCHANGED <<smPc, smCall, smSv, smI, smRet, smErr, smBuilds, smCalls>>
    /\ UNCHANGED othersSm

set_gaussian_std ==
    /\ smPc = "idle"
    /\ sm.cls = "GaussianFourierSmoother"
    /\ \E gstd \in StdInputs : sm' = [sm EXCEPT !.gaussianStd = gstd]
    /\ UNCHANGED <<smPc, smCall, smSv, smI, smRet, smErr, smBuilds, smCalls>>
    /\ UNCHANGED othersSm

\* DiffusionSmoother.smooth_scalar_field(v), up to the loop: Sv = v.clone()
diffusion_begin ==
    /\ smPc = "idle"
    /\ sm.cls = "DiffusionSmoother"
    /\ \E kind \in FieldKinds, shape \in DiffusionShapes(sm) :
        \E v \in {MkField(kind, shape)} :
            /\ smCall' = [op |-> "smooth_scalar_field", self |-> sm, v |-> v,
                          orig |-> NoField]
            /\ smSv' = v
    /\ smI' = 0
    /\ smPc' = "looping"
    /\ UNCHANGED <<sm, smRet, smErr, smBuilds, smCalls>>
    /\ UNCHANGED othersSm

\* one pass of the loop
diffusion_loop_step ==
    /\ smPc = "looping"
    /\ smI < Steps(sm)
    /\ \E r \in {diffusion_step(sm, smSv)} :
        IF r.ok
        THEN /\ smSv' = r.val
             /\ smI' = smI + 1
             /\ UNCHANGED <<smPc, smErr>>
        ELSE /\ smPc' = "raised"
             /\ smErr' = r.err
             /\ UNCHANGED <<smSv, smI>>
    /\ UNCHANGED <<sm, smCall, smRet, smBuilds, smCalls>>
    /\ UNCHANGED othersSm

\* the loop is over: return Sv
diffusion_loop_end ==
    /\ smPc = "looping"
    /\ smI >= Steps(sm)
    /\ smRet' = smSv
    /\ smPc' = "returned"
    /\ UNCHANGED <<sm, smCall, smSv, smI, smErr, smBuilds, smCalls>>
    /\ UNCHANGED othersSm

\* what a call on the smoother leaves behind
OutcomeOf(op, v, orig, r) ==
    /\ smCall' = [op |-> op, self |-> sm, v |-> v, orig |-> orig]
    /\ sm' = r.sm
    /\ smRet' = r.val
    /\ smErr' = r.err
    /\ smPc' = IF r.ok THEN "returned" ELSE "raised"
    /\ smBuilds' = smBuilds + r.built
    /\ smCalls' = IF sm.cls = "DiffusionSmoother" THEN smCalls ELSE smCalls + 1
    /\ UNCHANGED <<smSv, smI>>
    /\ UNCHANGED othersSm

Outcome(op, v, r) == OutcomeOf(op, v, NoField, r)

\* smooth_scalar_field(v) of the two Gaussian classes, v a field on the grid
gaussian_smooth_scalar_field ==
    /\ smPc = "idle"
    /\ sm.cls \in {"GaussianSpatialSmoother", "GaussianFourierSmoother"}
    /\ smCalls < MaxCalls
    /\ \E kind \in FieldKinds : \E v \in {MkField(kind, sm.sz)} :
        \E r \in {IF sm.cls = "GaussianSpatialSmoother"
                  THEN GaussianSpatialSmoother_smooth_scalar_field(sm, v)
                  ELSE GaussianFourierSmoother_smooth_scalar_field(sm, v)} :
            Outcome("smooth_scalar_field", v, r)

call_inverse_smooth_scalar_field ==
    /\ smPc = "idle"
    /\ sm # NoSmoother
    /\ smCalls < MaxCalls
    /\ \E kind \in FieldKinds : \E v \in {MkField(kind, sm.sz)} :
        \E r \in {inverse_smooth_scalar_field(sm, v)} :
            Outcome("inverse_smooth_scalar_field", v, r)

call_inverse_smooth_vector_field ==
    /\ smPc = "idle"
    /\ sm # NoSmoother
    /\ smCalls < MaxCalls
    /\ \E kind \in FieldKinds : \E v \in {MkVec(kind, sm.dim, sm.sz)} :
        \E r \in {inverse_smooth_vector_field(sm, v)} :
            Outcome("inverse_smooth_vector_field", v, r)

call_inverse_smooth_vector_field_multiN ==
    /\ smPc = "idle"
    /\ sm # NoSmoother
    /\ smCalls < MaxCalls
    /\ \E kinds \in BatchKinds : \E v \in {MkBatch(kinds, sm.dim, sm.sz)} :
        \E r \in {inverse_smooth_vector_field_multiN(sm, v)} :
            Outcome("inverse_smooth_vector_field_multiN", v, r)

call_smooth_vector_field ==
    /\ smPc = "idle"
    /\ sm # NoSmoother
    /\ smCalls < MaxCalls
    /\ \E kind \in FieldKinds, grid \in VectorGrids(sm) :
        \E v \in {MkVec(kind, sm.dim, grid)} :
            \E r \in {smooth_vector_field(sm, v)} :
                Outcome("smooth_vector_field", v, r)

call_smooth_vector_field_multiN ==
    /\ smPc = "idle"
    /\ sm # NoSmoother
    /\ smCalls < MaxCalls
    /\ \E kinds \in BatchKinds, grid \in VectorGrids(sm) :
        \E v \in {MkBatch(kinds, sm.dim, grid)} :
            \E r \in {smooth_vector_field_multiN(sm, v)} :
                Outcome("smooth_vector_field_multiN", v, r)

call_smooth_scalar_field_multiC ==
    /\ smPc = "idle"
    /\ sm # NoSmoother
    /\ smCalls < MaxCalls
    /\ \E kind \in FieldKinds, grid \in VectorGrids(sm), nrC \in ChannelInputs :
        \E I \in {MkVec(kind, nrC, grid)} :
            \E r \in {smooth_scalar_field_multiC(sm, I)} :
                Outcome("smooth_scalar_field_multiC", I, r)

call_smooth_scalar_field_multiNC ==
    /\ smPc = "idle"
    /\ sm # NoSmoother
    /\ smCalls < MaxCalls
    /\ \E kinds \in BatchKinds, grid \in VectorGrids(sm), nrC \in ChannelInputs :
        \E I \in {MkBatch(kinds, nrC, grid)} :
            \E r \in {smooth_scalar_field_multiNC(sm, I)} :
                Outcome("smooth_scalar_field_multiNC", I, r)

\* the caller takes the result of the call
\* the inverse method of each smoothing method that has one
InverseOf(op) ==
    CASE op = "smooth_scalar_field" -> "inverse_smooth_scalar_field"
      [] op = "smooth_vector_field" -> "inverse_smooth_vector_field"
      [] op = "smooth_vector_field_multiN" -> "inverse_smooth_vector_field_multiN"

\* inverse_smooth_*(smooth_*(v)): the caller passes the field a smoothing
\* call returned to the inverse method of the same smoother
inverse_of_smoothed ==
    /\ smPc = "returned"
    /\ smCall.op \in {"smooth_scalar_field", "smooth_vector_field",
                      "smooth_vector_field_multiN"}
    /\ smCalls < MaxCalls
    /\ \E r \in {CASE smCall.op = "smooth_scalar_field" ->
                        inverse_smooth_scalar_field(sm, smRet)
                  [] smCall.op = "smooth_vector_field" ->
                        inverse_smooth_vector_field(sm, smRet)
                  [] smCall.op = "smooth_vector_field_multiN" ->
                        inverse_smooth_vector_field_multiN(sm, smRet)} :
            OutcomeOf(InverseOf(smCall.op), smRet, smCall.v, r)

sm_done ==
    /\ smPc \in {"returned", "raised"}
    /\ smPc' = "idle"
    /\ smCall' = NoSmCall
    /\ smSv' = NoField
    /\ smI' = 0
    /\ smRet' = NoField
    /\ smErr' = ""
    /\ UNCHANGED <<sm, smBuilds, smCalls>>
    /\ UNCHANGED othersSm

\* the caller drops the smoother
sm_release ==
    /\ smPc = "idle"
    /\ sm # NoSmoother
    /\ sm' = NoSmoother
    /\ smBuilds' = 0
    /\ smCalls' = 0
    /\ UNCHANGED <<smPc, smCall, smSv, smI, smRet, smErr>>
    /\ UNCHANGED othersSm

SmNext ==
    \/ sm_construct
    \/ set_iter
    \/ set_k_sz_h
    \/ set_gaussian_std
    \/ diffusion_begin
    \/ diffusion_loop_step
    \/ diffusion_loop_end
    \/ gaussian_smooth_scalar_field
    \/ call_inverse_smooth_scalar_field
    \/ call_inverse_smooth_vector_field
    \/ call_inverse_smooth_vector_field_multiN
    \/ call_smooth_vector_field
    \/ call_smooth_vector_field_multiN
    \/ call_smooth_scalar_field_multiC
    \/ call_smooth_scalar_field_multiNC
    \/ inverse_of_smoothed
    \/ sm_done
    \/ sm_release

(***************************************************************************)
(* Factories.                                                              *)
(*                                                                         *)
(* The configuration passed to create_smoother and create_regularizer is   *)
(* the record of what the parameter dictionary holds under 'smoother' or   *)
(* 'regularizer': type is "absent" when it has no 'type', the other        *)
(* entries are what the constructors read, their defaults when absent.     *)
(***************************************************************************)
NoFactory == [cls |-> "none", sz |-> <<>>, spacing |-> <<>>, dim |-> 0, default_type |-> ""]

\* SmootherFactory.__init__(self, sz, spacing)
SmootherFactory_init(sz, spacing) ==
    [cls |-> "SmootherFactory", sz |-> sz, spacing |-> spacing, dim |-> Len(spacing),
     default_type |-> "gaussian"]

\* RegularizerFactory.__init__(self, spacing)
RegularizerFactory_init(spacing) ==
    [cls |-> "RegularizerFactory", sz |-> <<>>, spacing |-> spacing, dim |-> Len(spacing),
     default_type |-> "helmholtz"]

\* cparams[('type', default, ...)]
TypeOf(cparams, default) == IF cparams.type = "absent" THEN default ELSE cparams.type

\* mutant: the factory default is used whatever the configuration says
create_smoother_by_default(f, cparams) ==
    LET smootherType == f.default_type
    IN  CASE smootherType = "diffusion" -> DiffusionSmoother_init(f.sz, f.spacing, cparams.iter)
          [] smootherType = "gaussian" ->
                GaussianFourierSmoother_init(f.sz, f.spacing, cparams.gaussian_std)
          [] smootherType = "gaussianSpatial" ->
                GaussianSpatialSmoother_init(f.sz, f.spacing, cparams.k_sz_h)
          [] OTHER -> [ok |-> FALSE, err |-> "NameError", val |-> NoSmoother]

\* SmootherFactory.create_smoother, cparams what params holds under
\* 'smoother'; the message of the last branch reads smootherName, a name that
\* is not defined
create_smoother(f, cparams) ==
    LET smootherType == TypeOf(cparams, f.default_type)
    IN  CASE smootherType = "diffusion" -> DiffusionSmoother_init(f.sz, f.spacing, cparams.iter)
          [] smootherType = "gaussian" ->
                GaussianFourierSmoother_init(f.sz, f.spacing, cparams.gaussian_std)
          [] smootherType = "gaussianSpatial" ->
                GaussianSpatialSmoother_init(f.sz, f.spacing, cparams.k_sz_h)
          [] OTHER -> [ok |-> FALSE, err |-> "NameError", val |-> NoSmoother]

\* RegularizerFactory.create_regularizer, cparams what params holds under
\* 'regularizer'
create_regularizer(f, cparams) ==
    LET regularizerType == TypeOf(cparams, f.default_type)
    IN  IF regularizerType = "helmholtz"
        THEN HelmholtzRegularizer_init(f.spacing, cparams.alpha, cparams.gamma)
        ELSE [ok |-> FALSE, err |-> "ValueError", val |-> NoReg]

\* the configurations: every recognized type, none, and a type no factory knows
SmootherTypes == {"diffusion", "gaussian", "gaussianSpatial"}
SmootherConfigs ==
    [type : SmootherTypes \cup {"absent", "bspline"}, iter : ParamIterInputs,
     k_sz_h : {NoValue}, gaussian_std : {Frac(3, 20)}]
RegularizerConfigs ==
    [type : {"helmholtz", "absent", "curvature"}, alpha : ParamAlphaInputs,
     gamma : {RInt(1)}]

NoFacCall == [op |-> "none", type |-> "absent"]

FacInit ==
    /\ fac = NoFactory
    /\ rfac = NoFactory
    /\ facPc = "idle"
    /\ facCall = NoFacCall
    /\ facSm = NoSmoother
    /\ facReg = NoReg
    /\ facErr = ""
    /\ facKept = NoSmoother
    /\ facLastSet = "none"

\* SmootherFactory(sz, spacing)
new_SmootherFactory ==
    /\ facPc = "idle"
    /\ fac = NoFactory
    /\ \E spacing \in SmSpacingInputs, n \in {1, 2} :
        fac' = SmootherFactory_init([a \in 1..Len(spacing) |-> n], spacing)
    /\ facLastSet' = "none"
    /\ UNCHANGED <<rfac, facPc, facCall, facSm, facReg, facErr, facKept>>
    /\ UNCHANGED othersFac

\* RegularizerFactory(spacing)
new_RegularizerFactory ==
    /\ facPc = "idle"
    /\ rfac = NoFactory
    /\ \E spacing \in SmSpacingInputs : rfac' = RegularizerFactory_init(spacing)
    /\ UNCHANGED <<fac, facPc, facCall, facSm, facReg, facErr, facKept, facLastSet>>
    /\ UNCHANGED othersFac

set_default_smoother_type_to_gaussian ==
    /\ facPc = "idle"
    /\ fac # NoFactory
    /\ fac' = [fac EXCEPT !.default_type = "gaussian"]
    /\ facLastSet' = "gaussian"
    /\ UNCHANGED <<rfac, facPc, facCall, facSm, facReg, facErr, facKept>>
    /\ UNCHANGED othersFac

set_default_smoother_type_to_diffusion ==
    /\ facPc = "idle"
    /\ fac # NoFactory
    /\ fac' = [fac EXCEPT !.default_type = "diffusion"]
    /\ facLastSet' = "diffusion"
    /\ UNCHANGED <<rfac, facPc, facCall, facSm, facReg, facErr, facKept>>
    /\ UNCHANGED othersFac

set_default_smoother_type_to_gaussianSpatial ==
    /\ facPc = "idle"
    /\ fac # NoFactory
    /\ fac' = [fac EXCEPT !.default_type = "gaussianSpatial"]
    /\ facLastSet' = "gaussianSpatial"
    /\ UNCHANGED <<rfac, facPc, facCall, facSm, facReg, facErr, facKept>>
    /\ UNCHANGED othersFac

set_default_regularizer_type_to_helmholtz ==
    /\ facPc = "idle"
    /\ rfac # NoFactory
    /\ rfac' = [rfac EXCEPT !.default_type = "helmholtz"]
    /\ UNCHANGED <<fac, facPc, facCall, facSm, facReg, facErr, facKept, facLastSet>>
    /\ UNCHANGED othersFac

call_create_smoother ==
    /\ facPc = "idle"
    /\ fac # NoFactory
    /\ \E cparams \in SmootherConfigs :
        \E r \in {create_smoother(fac, cparams)} :
            /\ facCall' = [op |-> "create_smoother", type |-> cparams.type]
            /\ facSm' = r.val
            /\ facErr' = r.err
            /\ facPc' = IF r.ok THEN "returned" ELSE "raised"
    /\ UNCHANGED <<fac, rfac, facReg, facKept, facLastSet>>
    /\ UNCHANGED othersFac

call_create_regularizer ==
    /\ facPc = "idle"
    /\ rfac # NoFactory
    /\ \E cparams \in RegularizerConfigs :
        \E r \in {create_regularizer(rfac, cparams)} :
            /\ facCall' = [op |-> "create_regularizer", type |-> cparams.type]
            /\ facReg' = r.val
            /\ facErr' = r.err
            /\ facPc' = IF r.ok THEN "returned" ELSE "raised"
    /\ UNCHANGED <<fac, rfac, facSm, facKept, facLastSet>>
    /\ UNCHANGED othersFac

\* the caller takes the result of the call and keeps a smoother it was given
fac_done ==
    /\ facPc \in {"returned", "raised"}
    /\ facPc' = "idle"
    /\ facKept' = IF facSm # NoSmoother THEN facSm ELSE facKept
    /\ facCall' = NoFacCall
    /\ facSm' = NoSmoother
    /\ facReg' = NoReg
    /\ facErr' = ""
    /\ UNCHANGED <<fac, rfac, facLastSet>>
    /\ UNCHANGED othersFac

\* the caller drops the factories and the smoother it kept
fac_release ==
    /\ facPc = "idle"
    /\ fac # NoFactory \/ rfac # NoFactory
    /\ fac' = NoFactory
    /\ rfac' = NoFactory
    /\ facKept' = NoSmoother
    /\ facLastSet' = "none"
    /\ UNCHANGED <<facPc, facCall, facSm, facReg, facErr>>
    /\ UNCHANGED othersFac

FacNext ==
    \/ new_SmootherFactory
    \/ new_RegularizerFactory
    \/ set_default_smoother_type_to_gaussian
    \/ set_default_smoother_type_to_diffusion
    \/ set_default_smoother_type_to_gaussianSpatial
    \/ set_default_regularizer_type_to_helmholtz
    \/ call_create_smoother
    \/ call_create_regularizer
    \/ fac_done
    \/ fac_release

(***************************************************************************)
(* Two threads calling one Gaussian smoother.                              *)
(*                                                                         *)
(* The methods take no lock. The interpreter may switch threads between    *)
(* the test of the cached filter, the call of _create_filter, whose last   *)
(* statement stores the finished filter, and the convolution, which reads  *)
(* the attribute again.                                                    *)
(***************************************************************************)
Threads == {"a", "b"}
GaussianClasses == {"GaussianSpatialSmoother", "GaussianFourierSmoother"}

\* the attribute a class caches its filter in
CachedFilter(s) == IF s.cls = "GaussianFourierSmoother" THEN s.FFilter ELSE s.filter

NoThCall == [op |-> "none", v |-> NoField]

ThrInit ==
    /\ thSm = NoSmoother
    /\ thPc = [t \in Threads |-> "idle"]
    /\ thCall = [t \in Threads |-> NoThCall]
    /\ thRet = [t \in Threads |-> NoField]
    /\ thBuilds = 0

\* the smoother is constructed before the threads use it
th_construct ==
    /\ thSm = NoSmoother
    /\ \E cls \in GaussianClasses, spacing \in SmSpacingInputs, n \in {1, 2} :
        \E p \in ParamInputs(cls) :
            \E r \in {new_smoother(cls, [a \in 1..Len(spacing) |-> n], spacing, p)} :
                r.ok /\ thSm' = r.val
    /\ thBuilds' = 0
    /\ UNCHANGED <<thPc, thCall, thRet>>
    /\ UNCHANGED othersThr

\* a thread enters smooth_scalar_field(v) or inverse_smooth_scalar_field(v)
th_call ==
    /\ thSm # NoSmoother
    /\ thBuilds < MaxCalls
    /\ \E t \in Threads, kind \in FieldKinds,
          op \in {"smooth_scalar_field", "inverse_smooth_scalar_field"} :
        /\ thPc[t] = "idle"
        /\ thCall' = [thCall EXCEPT ![t] = [op |-> op, v |-> MkField(kind, thSm.sz)]]
        /\ IF op = "inverse_smooth_scalar_field" /\ thSm.cls = "GaussianSpatialSmoother"
           THEN thPc' = [thPc EXCEPT ![t] = "raised"]
           ELSE thPc' = [thPc EXCEPT ![t] = "test"]
    /\ UNCHANGED <<thSm, thRet, thBuilds>>
    /\ UNCHANGED othersThr

\* if self.FFilter is None (if self.filter is None)
th_test ==
    /\ \E t \in Threads :
        /\ thPc[t] = "test"
        /\ thPc' = [thPc EXCEPT ![t] =
                        IF CachedFilter(thSm) = NoValue THEN "create" ELSE "convolve"]
    /\ UNCHANGED <<thSm, thCall, thRet, thBuilds>>
    /\ UNCHANGED othersThr

\* self._create_filter()
th_create_filter ==
    /\ \E t \in Threads :
        /\ thPc[t] = "create"
        /\ IF thSm.cls = "GaussianFourierSmoother"
           THEN /\ thSm' = GaussianFourierSmoother_create_filter(thSm)
                /\ thPc' = [thPc EXCEPT ![t] = "convolve"]
           ELSE /\ thSm' = GaussianSpatialSmoother_create_filter(thSm).sm
                /\ thPc' = [thPc EXCEPT ![t] = "raised"]
    /\ thBuilds' = thBuilds + 1
    /\ UNCHANGED <<thCall, thRet>>
    /\ UNCHANGED othersThr

\* return ce.fourier_convolution(v, self.FFilter), the inverse and the spatial
\* filtering alike: the filter is the one the attribute holds now
th_convolve ==
    /\ \E t \in Threads :
        /\ thPc[t] = "convolve"
        /\ \E r \in {IF thSm.cls = "GaussianFourierSmoother"
                      THEN GaussianFourierSmoother_convolve(thSm, thCall[t].v,
                                IF thCall[t].op = "smooth_scalar_field"
                                THEN "fourier_convolution"
                                ELSE "inverse_fourier_convolution")
                      ELSE SRet(thSm, filter_input_with_padding(thSm, thCall[t].v), 0)} :
            thRet' = [thRet EXCEPT ![t] = r.val]
        /\ thPc' = [thPc EXCEPT ![t] = "returned"]
    /\ UNCHANGED <<thSm, thCall, thBuilds>>
    /\ UNCHANGED othersThr

\* the thread's caller takes the result of the call
th_done ==
    /\ \E t \in Threads :
        /\ thPc[t] \in {"returned", "raised"}
        /\ thPc' = [thPc EXCEPT ![t] = "idle"]
        /\ thCall' = [thCall EXCEPT ![t] = NoThCall]
        /\ thRet' = [thRet EXCEPT ![t] = NoField]
    /\ UNCHANGED <<thSm, thBuilds>>
    /\ UNCHANGED othersThr

\* the threads have finished and the smoother is dropped
th_release ==
    /\ thSm # NoSmoother
    /\ \A t \in Threads : thPc[t] = "idle"
    /\ thSm' = NoSmoother
    /\ thBuilds' = 0
    /\ UNCHANGED <<thPc, thCall, thRet>>
    /\ UNCHANGED othersThr

ThrNext ==
    \/ th_construct
    \/ th_call
    \/ th_test
    \/ th_create_filter
    \/ th_convolve
    \/ th_done
    \/ th_release

RKIdle ==
    /\ rk = [cls |-> "EulerForward", nrOfTimeSteps |-> 1, f |-> "decay",
             u |-> "none", pars |-> <<>>]
    /\ rkPc = "ready"
    /\ rkCall = NoCall
    /\ rkX = NoValue
    /\ rkT = RInt(0)
    /\ rkDt = RInt(0)
    /\ rkI = 0
    /\ rkStepLog = <<>>
    /\ rkFLog = <<>>
    /\ rkRet = NoValue
    /\ rkErr = ""
    /\ rkArg = NoValue
    /\ rkFirst = NoValue

\* the integrators alone: no engine is constructed
InitRK == RKInit /\ FDInit /\ RegInit /\ SmInit /\ FacInit /\ ThrInit
SpecRK == InitRK /\ [][RKNext]_vars

\* the finite-difference engine alone: the integrator is not called
InitFD == RKIdle /\ FDInit /\ RegInit /\ SmInit /\ FacInit /\ ThrInit
SpecFD == InitFD /\ [][FDNext]_vars

\* the regularizer alone
InitReg == RKIdle /\ FDInit /\ RegInit /\ SmInit /\ FacInit /\ ThrInit
SpecReg == InitReg /\ [][RegNext]_vars

\* the factories alone
InitFac == RKIdle /\ FDInit /\ RegInit /\ SmInit /\ FacInit /\ ThrInit
SpecFac == InitFac /\ [][FacNext]_vars

\* two threads on one Gaussian smoother
InitThr == RKIdle /\ FDInit /\ RegInit /\ SmInit /\ FacInit /\ ThrInit
SpecThr == InitThr /\ [][ThrNext]_vars

\* the smoothers alone
InitSm == RKIdle /\ FDInit /\ RegInit /\ SmInit /\ FacInit /\ ThrInit
SpecSm == InitSm /\ [][SmNext]_vars

(***************************************************************************)
(* Properties of the integrators.                                          *)
(***************************************************************************)
\* x + c * k, element by element over the whole of x
Axpy(x, c, k) == [i \in 1..Len(x) |-> RAdd(x[i], RMul(c, k[i]))]

\* the right-hand side of the integrator o at time t and state xs
Rhs(o, t, xs) == F(o.f, t, xs, U(o.u, t, o.pars), o.pars)

\* f returns at least one element for every element of the state
FCoversState == rk.f \in {"decay", "forced", "long"}

StepSize == RDiv(RSub(rkCall.toT, rkCall.fromT), RInt(rk.nrOfTimeSteps))

\* C1: solve applies solve_one_step N times, in order, always with the step
\* size (toT - fromT)/N: call n gets the time fromT + n*dt and the state the
\* call before it returned (x0 first); solve returns only after the N-th call,
\* and returns what that call returned.
C1_SolveSchedule ==
    (rkCall.op = "solve" /\ rkCall.x.kind = "list" /\ rk.nrOfTimeSteps >= 1) =>
        /\ rkPc \in {"solving", "returned"} => Len(rkStepLog) = rkI
        /\ Len(rkStepLog) <= rk.nrOfTimeSteps
        /\ \A n \in 1..Len(rkStepLog) :
            /\ rkStepLog[n].dt = StepSize
            /\ rkStepLog[n].t = RAdd(rkCall.fromT, RMul(RInt(n - 1), StepSize))
            /\ rkStepLog[n].x =
                    IF n = 1 THEN rkCall.x
                    ELSE solve_one_step(rk, rkStepLog[n - 1].x, rkStepLog[n - 1].t,
                                        rkStepLog[n - 1].dt).val
        /\ rkPc = "returned" =>
            /\ Len(rkStepLog) = rk.nrOfTimeSteps
            /\ rkRet = solve_one_step(rk, rkStepLog[rk.nrOfTimeSteps].x,
                                      rkStepLog[rk.nrOfTimeSteps].t,
                                      rkStepLog[rk.nrOfTimeSteps].dt).val

C1_Witness ==
    /\ rkCall.op = "solve"
    /\ rkPc = "returned"
    /\ rk.cls = "RK4"
    /\ rk.f = "decay"
    /\ rk.nrOfTimeSteps = 3
    /\ Len(rkStepLog) = 3
    /\ rkCall.toT = RInt(2)
    /\ rkCall.fromT = RInt(0)
    /\ Len(rkRet.elems) = 2

\* the four stages of the classical Runge-Kutta method for the call in rkCall
Stage1 == Rhs(rk, rkT, rkCall.x.elems)
Stage2X == Axpy(rkCall.x.elems, RDiv(rkDt, RInt(2)), Stage1)
Stage2T == RAdd(rkT, RDiv(rkDt, RInt(2)))
Stage2 == Rhs(rk, Stage2T, Stage2X)
Stage3X == Axpy(rkCall.x.elems, RDiv(rkDt, RInt(2)), Stage2)
Stage3 == Rhs(rk, Stage2T, Stage3X)
Stage4X == Axpy(rkCall.x.elems, rkDt, Stage3)
Stage4T == RAdd(rkT, rkDt)
Stage4 == Rhs(rk, Stage4T, Stage4X)

LoggedCall(t, xs) == [t |-> t, x |-> xs, u |-> U(rk.u, t, rk.pars), pars |-> rk.pars]

\* C2: RK4.solve_one_step(x, t, dt) calls f four times, k1 = f(t, x),
\* k2 = f(t + dt/2, x + dt/2 k1), k3 = f(t + dt/2, x + dt/2 k2),
\* k4 = f(t + dt, x + dt k3), each with u at the stage's time and with pars,
\* and returns x + dt/6 (k1 + 2 k2 + 2 k3 + k4), element by element.
C2_RK4Step ==
    (/\ rkCall.op = "solve_one_step"
     /\ rk.cls = "RK4"
     /\ rkCall.x.kind = "list"
     /\ FCoversState) =>
        /\ rkPc \in {"returned", "raised"} => rkPc = "returned"
        /\ rkFLog = <<LoggedCall(rkT, rkCall.x.elems), LoggedCall(Stage2T, Stage2X),
                      LoggedCall(Stage2T, Stage3X), LoggedCall(Stage4T, Stage4X)>>
        /\ rkRet.kind = "list"
        /\ Len(rkRet.elems) = Len(rkCall.x.elems)
        /\ \A i \in 1..Len(rkCall.x.elems) :
            rkRet.elems[i] =
                RAdd(rkCall.x.elems[i],
                     RMul(RDiv(rkDt, RInt(6)),
                          RAdd(RAdd(Stage1[i], RMul(RInt(2), Stage2[i])),
                               RAdd(RMul(RInt(2), Stage3[i]), Stage4[i]))))

C2_Witness ==
    /\ rkCall.op = "solve_one_step"
    /\ rkPc = "returned"
    /\ rk.cls = "RK4"
    /\ rk.f = "decay"
    /\ rk.u = "ramp"
    /\ rkDt = Frac(1, 2)
    /\ rkT = RInt(1)
    /\ Len(rkFLog) = 4
    /\ rkRet = PyList(<<Frac(1, 3), Frac(-2, 3)>>)

\* C3: EulerForward.solve_one_step(x, t, dt) calls f once, as
\* f(t, x, u(t, pars), pars), and returns x + dt f, element by element; so a
\* solve of N steps calls f N times, at the times fromT + n dt, n = 0..N-1.
C3_EulerStep ==
    (rk.cls = "EulerForward" /\ rkCall.x.kind = "list" /\ FCoversState) =>
        /\ rkCall.op = "solve_one_step" =>
            /\ rkPc = "returned"
            /\ rkFLog = <<LoggedCall(rkT, rkCall.x.elems)>>
            /\ rkRet = PyList(Axpy(rkCall.x.elems, rkDt, Stage1))
        /\ (rkCall.op = "solve" /\ rk.nrOfTimeSteps >= 1) =>
            /\ Len(rkFLog) = rkI
            /\ \A n \in 1..Len(rkFLog) :
                /\ rkFLog[n].t = RAdd(rkCall.fromT, RMul(RInt(n - 1), StepSize))
                /\ rkFLog[n].x = rkStepLog[n].x.elems
                /\ rkFLog[n].u = U(rk.u, rkFLog[n].t, rk.pars)
                /\ rkFLog[n].pars = rk.pars
            /\ rkPc = "returned" => Len(rkFLog) = rk.nrOfTimeSteps

C3_Witness ==
    /\ rk.cls = "EulerForward"
    /\ rkCall.op = "solve"
    /\ rkPc = "returned"
    /\ rk.f = "forced"
    /\ rk.u = "ramp"
    /\ rk.nrOfTimeSteps = 3
    /\ Len(rkFLog) = 3
    /\ rkCall.fromT = RInt(0)
    /\ rkCall.toT = RInt(1)
    /\ rkFLog[3].t = Frac(2, 3)

\* C4: with either integrator, the state after any number of steps, and the
\* state solve or solve_one_step returns, is a list as long as the input x,
\* whatever the length of the list f returns.
C4_LengthPreserved ==
    (rkCall.op # "none" /\ rkCall.x.kind = "list") =>
        /\ rkPc # "raised"
        /\ rkPc = "solving" => Len(rkX.elems) = Len(rkCall.x.elems)
        /\ rkPc = "returned" =>
            /\ rkRet.kind = "list"
            /\ Len(rkRet.elems) = Len(rkCall.x.elems)

\* C5: solve and solve_one_step, called with an x that is not a list, raise
\* the invalid-state error before any call of f and return nothing.
C5_NonListRejected ==
    (rkCall.op # "none" /\ rkCall.x.kind # "list") =>
        /\ rkPc = "raised"
        /\ rkErr = "AssertionError"
        /\ rkFLog = <<>>
        /\ rkRet = NoValue

(***************************************************************************)
(* Properties of the finite-difference engine.                             *)
(***************************************************************************)
\* the axis an operator works along
AxisOf(op) ==
    CASE op \in {"xp", "xm", "dXb", "dXf", "dXc", "ddXc"} -> 1
      [] op \in {"yp", "ym", "dYb", "dYf", "dYc", "ddYc"} -> 2
      [] op \in {"zp", "zm", "dZb", "dZf", "dZc", "ddZc"} -> 3
      [] OTHER -> 0

\* the engine's backend hooks are implemented
Concrete == fdEngine.cls \in {"FD_np", "FD_torch"}

\* the field of the call has 1 to 3 axes and has the axis a
FieldHasAxis(a) == a >= 1 /\ a <= Len(fdCall.I.shape) /\ Len(fdCall.I.shape) <= 3

\* the field shifted by one cell along axis a, at idx: the neighbour inside the
\* grid and, at the edge, the edge value (zero-Neumann) or 2 edge - neighbour
PlusAt(I, a, idx) ==
    IF idx[a] < I.shape[a] - 1 THEN I.val[Up(idx, a)]
    ELSE IF fdEngine.bcNeumannZero THEN I.val[idx]
    ELSE RSub(RMul(RInt(2), I.val[idx]), I.val[Down(idx, a)])

MinusAt(I, a, idx) ==
    IF idx[a] > 0 THEN I.val[Down(idx, a)]
    ELSE IF fdEngine.bcNeumannZero THEN I.val[idx]
    ELSE RSub(RMul(RInt(2), I.val[idx]), I.val[Up(idx, a)])

SpacingOf(a) == fdEngine.spacing[a]

\* C6: along every axis a the engine and the field have, the backward
\* difference is (I - shift_minus(I))/h_a, the forward one
\* (shift_plus(I) - I)/h_a and the central one
\* (shift_plus(I) - shift_minus(I))/(2 h_a), where shift_plus(I)[i] = I[i+1]
\* and shift_minus(I)[i] = I[i-1] along a at every interior index.
C6_Differences ==
    LET op == fdCall.op
        a == AxisOf(op)
        I == fdCall.I
    IN  (/\ op \in {"dXb", "dXf", "dXc", "dYb", "dYf", "dYc", "dZb", "dZf", "dZc"}
         /\ Concrete
         /\ FieldHasAxis(a)
         /\ a <= fdEngine.dim) =>
            /\ fdPc = "returned"
            /\ fdOut.shape = I.shape
            /\ DOMAIN fdOut.val = Idx(I.shape)
            /\ \A idx \in Idx(I.shape) :
                fdOut.val[idx] =
                    CASE op \in {"dXb", "dYb", "dZb"} ->
                            RDiv(RSub(I.val[idx], MinusAt(I, a, idx)), SpacingOf(a))
                      [] op \in {"dXf", "dYf", "dZf"} ->
                            RDiv(RSub(PlusAt(I, a, idx), I.val[idx]), SpacingOf(a))
                      [] OTHER ->
                            RDiv(RSub(PlusAt(I, a, idx), MinusAt(I, a, idx)),
                                 RMul(RInt(2), SpacingOf(a)))

C6_Witness ==
    /\ fdCall.op = "dYc"
    /\ fdPc = "returned"
    /\ fdEngine.cls = "FD_torch"
    /\ fdEngine.dim = 2
    /\ fdCall.I = MkField("square", <<2, 3>>)
    /\ fdOut.val[<<1, 1>>] = RInt(1)

\* C7: under the zero-Neumann policy, for a field of 1, 2 or 3 axes and every
\* axis of it, the plus-shift at the last index is I at the last index and the
\* minus-shift at the first index is I at the first index; every element of
\* the shifted array comes from I, none keeps the zero it was allocated with,
\* also when the field has a single element along the axis.
C7_NeumannEdges ==
    LET op == fdCall.op
        a == AxisOf(op)
        I == fdCall.I
    IN  (/\ op \in ShiftOps
         /\ Concrete
         /\ fdEngine.bcNeumannZero
         /\ FieldHasAxis(a)) =>
            /\ fdPc = "returned"
            /\ fdOut.shape = I.shape
            /\ DOMAIN fdOut.val = Idx(I.shape)
            /\ \A idx \in Idx(I.shape) :
                fdOut.val[idx] =
                    IF op \in {"xp", "yp", "zp"}
                    THEN I.val[IF idx[a] < I.shape[a] - 1 THEN Up(idx, a) ELSE idx]
                    ELSE I.val[IF idx[a] > 0 THEN Down(idx, a) ELSE idx]

C7_Witness ==
    /\ fdCall.op = "yp"
    /\ fdPc = "returned"
    /\ fdEngine.bcNeumannZero
    /\ fdCall.I = MkField("linear", <<3, 1>>)
    /\ fdOut.val[<<2, 0>>] = RInt(3)

\* C8: an engine can be constructed with either boundary policy, also through
\* FD_np and FD_torch; the policy given is the policy of the engine, and with
\* the non-Neumann policy the plus-shift at the last index is
\* 2 I[last] - I[last-1] and the minus-shift at the first index 2 I[0] - I[1].
C8_PolicySelectable ==
    LET op == fdCall.op
        a == AxisOf(op)
        I == fdCall.I
    IN  /\ (/\ op = "construct"
            /\ fdCall.policy # "omitted"
            /\ Len(fdCall.spacing) \in {1, 2, 3}) =>
                /\ fdPc = "returned"
                /\ fdEngine # NoEngine
                /\ fdEngine.bcNeumannZero = (fdCall.policy = "True")
        /\ (/\ op \in ShiftOps
            /\ ~fdEngine.bcNeumannZero
            /\ FieldHasAxis(a)
            /\ I.shape[a] >= 2) =>
                /\ fdPc = "returned"
                /\ \A idx \in Idx(I.shape) : fdOut.val[idx] =
                        IF op \in {"xp", "yp", "zp"}
                        THEN PlusAt(I, a, idx) ELSE MinusAt(I, a, idx)

\* the sum over the axes 1..n of (shift_plus(I) - 2 I + shift_minus(I))/h^2 at idx
RECURSIVE SecondDifferences(_, _, _)
SecondDifferences(I, n, idx) ==
    IF n = 0 THEN RInt(0)
    ELSE RAdd(SecondDifferences(I, n - 1, idx),
              RDiv(RAdd(RSub(PlusAt(I, n, idx), RMul(RInt(2), I.val[idx])),
                        MinusAt(I, n, idx)),
                   RMul(SpacingOf(n), SpacingOf(n))))

C10_ConstructDimension ==
    (/\ fdCall.op = "construct"
     /\ \/ fdCall.cls \in {"FD_np", "FD_torch"} /\ fdCall.policy = "omitted"
        \/ fdCall.cls = "FD" /\ fdErr # "TypeError") =>
        IF Len(fdCall.spacing) \in {1, 2, 3}
        THEN /\ fdPc = "returned"
             /\ fdEngine # NoEngine
             /\ fdEngine.cls = fdCall.cls
             /\ fdEngine.dim = Len(fdCall.spacing)
             /\ fdEngine.spacing = fdCall.spacing
        ELSE /\ fdPc = "raised"
             /\ fdErr = "ValueError"
             /\ fdEngine = NoEngine

C10_Witness ==
    /\ fdCall.op = "construct"
    /\ fdCall.cls = "FD_np"
    /\ Len(fdCall.spacing) = 4
    /\ fdPc = "raised"
    /\ fdErr = "ValueError"
    /\ fdEngine = NoEngine

\* C11: a Y operator (dYb, dYf, dYc, ddYc) called when the engine or the field
\* is 1-dimensional, and a Z operator (dZb, dZf, dZc, ddZc) called when the
\* engine or the field has fewer than 3 dimensions, fails with ValueError: no
\* other error kind is raised and no field is returned.
C11_LackingAxisRejected ==
    LET op == fdCall.op
        a == AxisOf(op)
        n == Len(fdCall.I.shape)
    IN  (/\ op \in DiffOps
         /\ a \in {2, 3}
         /\ (fdEngine.dim < a \/ n < a)) =>
            /\ fdPc = "raised"
            /\ fdErr = "ValueError"
            /\ fdOut = NoField

(***************************************************************************)
(* Properties of the regularizer.                                          *)
(***************************************************************************)
\* the Laplacian over the first n grid axes of component t[1] of the vector
\* field v at the grid point Tail(t), for the spacing h: the sum of
\* (v[i+1] - 2 v[i] + v[i-1])/h^2 per axis, the edge value repeated at the edges
RECURSIVE LapOfComponent(_, _, _, _)
LapOfComponent(v, h, n, t) ==
    IF n = 0 THEN RInt(0)
    ELSE LET a == n + 1
             up == IF t[a] < v.shape[a] - 1 THEN v.val[Up(t, a)] ELSE v.val[t]
             down == IF t[a] > 0 THEN v.val[Down(t, a)] ELSE v.val[t]
         IN  Bind(LapOfComponent(v, h, n - 1, t), LAMBDA s :
             Bind(RAdd(RSub(up, RMul(RInt(2), v.val[t])), down), LAMBDA d :
                  RAdd(s, RDiv(d, RMul(h[n], h[n])))))

\* (gamma v_c - alpha lap(v_c))^2 at one grid point of one component
HelmholtzTerm(r, v, t) ==
    Bind(LapOfComponent(v, r.spacing, r.dim, t), LAMBDA l :
    Bind(RMul(r.alpha, l), LAMBDA al :
    Bind(RSub(RMul(r.gamma, v.val[t]), al), LAMBDA x : RMul(x, x))))

\* the sum of the terms over all components and grid points, times the
\* product of the spacings
HelmholtzValue(r, v) ==
    Bind(FSum([shape |-> v.shape, val |-> [t \in DOMAIN v.val |-> HelmholtzTerm(r, v, t)]]),
         LAMBDA s : RMul(s, Prod(r.spacing)))

\* the sum of the values of the first n items of the batch v
RECURSIVE HelmholtzTotal(_, _, _)
HelmholtzTotal(r, v, n) ==
    IF n = 0 THEN RInt(0)
    ELSE Bind(HelmholtzTotal(r, v, n - 1), LAMBDA s :
         Bind(HelmholtzValue(r, Sub(v, n - 1)), LAMBDA x : RAdd(s, x)))

\* the batch v with its items k - 1 and k exchanged
Exchanged(v, k) ==
    [v EXCEPT !.val = Stored([t \in DOMAIN v.val |->
        v.val[[t EXCEPT ![1] = IF @ = k - 1 THEN k ELSE IF @ = k THEN k - 1 ELSE @]]])]

\* C12: for a vector field v on a grid of dimension 1, 2 or 3 the regularizer
\* returns the sum over all components and grid points of
\* (gamma v_c - alpha lap(v_c))^2 times the product of the spacings, with the
\* alpha and gamma the object holds at the call; for a batch it returns the
\* sum of the values of the items, the same when two neighbouring items are
\* exchanged (hence in any order), and 0 for an empty batch.
C12_HelmholtzValue ==
    LET v == regCall.v
        N == v.shape[1]
    IN  /\ regCall.op = "compute_regularizer" =>
            /\ regPc = "returned"
            /\ regRet = HelmholtzValue(reg, v)
        /\ regCall.op = "compute_regularizer_multiN" =>
            /\ regPc = "returned"
            /\ regRet = HelmholtzTotal(reg, v, N)
            /\ \A k \in 1..(N - 1) :
                compute_regularizer_multiN(reg, Exchanged(v, k)).val = regRet
            /\ N = 0 => regRet = RInt(0)

C12_Witness ==
    /\ regCall.op = "compute_regularizer_multiN"
    /\ regPc = "returned"
    /\ reg.spacing = <<Frac(1, 2), RInt(2)>>
    /\ reg.alpha = RInt(1)
    /\ reg.gamma = RInt(2)
    /\ regCall.v = MkBatch(<<"square", "impulse">>, 2, <<3, 2>>)
    /\ regRet = Frac(7879, 2)

\* C13: with alpha >= 0 and gamma >= 0 the value returned for a vector field
\* or a batch is >= 0, and it is 0 when alpha = gamma = 0.
C13_NonNegative ==
    (/\ regCall.op \in {"compute_regularizer", "compute_regularizer_multiN"}
     /\ reg.alpha[1] >= 0
     /\ reg.gamma[1] >= 0
     /\ \A a \in 1..reg.dim : reg.spacing[a][1] > 0) =>
        /\ regPc = "returned"
        /\ regRet[1] >= 0
        /\ regRet[2] > 0
        /\ (reg.alpha = RInt(0) /\ reg.gamma = RInt(0)) => regRet = RInt(0)

C13_Witness ==
    /\ regCall.op = "compute_regularizer_multiN"
    /\ regPc = "returned"
    /\ reg.alpha = RInt(0)
    /\ reg.gamma = RInt(0)
    /\ regCall.v = MkBatch(<<"impulse", "linear">>, 3, <<3, 2, 2>>)
    /\ regCall.v.val[<<0, 0, 1, 1, 1>>] = RInt(-1)
    /\ regRet = RInt(0)

(***************************************************************************)
(* Properties of the smoothers.                                            *)
(***************************************************************************)
\* a call of smooth_scalar_field on a diffusion smoother, for a field on a
\* grid of the smoother's dimension
DiffusionCall ==
    /\ smCall.op = "smooth_scalar_field"
    /\ smCall.self.cls = "DiffusionSmoother"
    /\ Len(smCall.v.shape) = smCall.self.dim

\* ((S[i+1] - S[i]) + (S[i-1] - S[i]))/h^2 along axis a at idx, the edge value
\* repeated at the edges
SecondDifferenceAt(S, h, a, idx) ==
    LET up == IF idx[a] < S.shape[a] - 1 THEN S.val[Up(idx, a)] ELSE S.val[idx]
        down == IF idx[a] > 0 THEN S.val[Down(idx, a)] ELSE S.val[idx]
    IN  Bind(RAdd(RSub(up, S.val[idx]), RSub(down, S.val[idx])),
             LAMBDA d : RDiv(d, RMul(h[a], h[a])))

\* the Laplacian of the field S over its first n <= 3 axes at idx
LapAt(S, h, n, idx) ==
    CASE n = 1 -> SecondDifferenceAt(S, h, 1, idx)
      [] n = 2 -> RAdd(SecondDifferenceAt(S, h, 1, idx), SecondDifferenceAt(S, h, 2, idx))
      [] n = 3 -> RAdd(RAdd(SecondDifferenceAt(S, h, 1, idx), SecondDifferenceAt(S, h, 2, idx)),
                       SecondDifferenceAt(S, h, 3, idx))

\* S + (0.5 / 2^dim) lap(S) min(spacing)^2
UpdateStep(s, S) ==
    Bind(Stored([idx \in DOMAIN S.val |-> LapAt(S, s.spacing, s.dim, idx)]), LAMBDA L :
    Bind(RMul(Frac(1, 2 * 2^(s.dim)), RMul(SpacingMin(s.spacing), SpacingMin(s.spacing))),
         LAMBDA c :
            [shape |-> S.shape,
             val |-> Stored([idx \in DOMAIN S.val |-> RAdd(S.val[idx], RMul(c, L[idx]))])]))

\* v after k update steps
RECURSIVE Updated(_, _, _)
Updated(s, v, k) ==
    IF k = 0 THEN v
    ELSE IF k = 1 THEN UpdateStep(s, v)
    ELSE Bind(Updated(s, v, k \div 2), LAMBDA S : Updated(s, S, k - k \div 2))

\* C14: smooth_scalar_field(v) of a diffusion smoother starts from v and makes
\* iter * 2^dim update steps S <- S + (0.5 / 2^dim) lap(S) min(spacing)^2, iter
\* the value the smoother holds at the call (5 unless params or set_iter gave
\* another); with iter = 0 it returns v.
C14_DiffusionSteps ==
    DiffusionCall =>
        LET s == smCall.self
            n == s.iter * 2^(s.dim)
        IN  /\ sm = s
            /\ smPc \in {"looping", "returned"}
            /\ smI <= n
            /\ smSv = Updated(s, smCall.v, smI)
            /\ smPc = "returned" =>
                /\ smI = n
                /\ smRet = smSv
                /\ s.iter = 0 => smRet = smCall.v

C14_Witness ==
    /\ DiffusionCall
    /\ smPc = "returned"
    /\ sm.iter = 2
    /\ sm.spacing = <<RInt(1), RInt(1)>>
    /\ smCall.v = MkField("impulse", <<3, 3>>)
    /\ smI = 8
    /\ smRet # smCall.v

\* the largest absolute value of the field A
RAbs(a) == <<Abs(a[1]), a[2]>>
MaxAbs(A) ==
    CHOOSE m \in {RAbs(A.val[idx]) : idx \in DOMAIN A.val} :
        \A idx \in DOMAIN A.val : RLeq(RAbs(A.val[idx]), m)

\* the grid points next to idx along one axis
Neighbours(shape, idx) ==
    {t \in Idx(shape) : \E a \in 1..Len(shape) :
        /\ Abs(t[a] - idx[a]) = 1
        /\ \A b \in 1..Len(shape) : b # a => t[b] = idx[b]}

\* C15: every diffusion step, and hence smooth_scalar_field(v), keeps the sum
\* of all entries of the field; smoothing a unit impulse with at least one
\* step makes the entries next to the impulse non-zero.
C15_SumConserved ==
    DiffusionCall =>
        LET v == smCall.v
            centre == [a \in 1..Len(v.shape) |-> v.shape[a] \div 2]
        IN  /\ smPc \in {"looping", "returned"}
            /\ FSum(smSv) = FSum(v)
            /\ smPc = "returned" =>
                /\ FSum(smRet) = FSum(v)
                /\ (v = MkField("impulse", v.shape) /\ smI >= 1) =>
                    \A t \in Neighbours(v.shape, centre) : smRet.val[t] # RInt(0)

C15_Witness ==
    /\ DiffusionCall
    /\ smPc = "returned"
    /\ sm.iter = 1
    /\ sm.spacing = <<RInt(1), RInt(1)>>
    /\ smCall.v = MkField("impulse", <<3, 3>>)
    /\ smI = 4
    /\ FSum(smRet) = RInt(1)
    /\ smRet.val[<<0, 1>>] # RInt(0)
    /\ smRet.val[<<1, 1>>] # RInt(1)

\* C16: no diffusion step raises the largest absolute value of the field, so
\* that of smooth_scalar_field(v) is at most that of v, for grids of dimension
\* 1, 2 and 3 and positive spacings.
C16_MaxNormNonExpansive ==
    [][(DiffusionCall /\ smPc = "looping") =>
            /\ smPc' \in {"looping", "returned"}
            /\ RLeq(MaxAbs(smSv'), MaxAbs(smSv))
            /\ smPc' = "returned" =>
                /\ RLeq(MaxAbs(smRet'), MaxAbs(smSv))
                /\ RLeq(MaxAbs(smRet'), MaxAbs(smCall.v))]_vars

C16_Witness ==
    /\ DiffusionCall
    /\ smPc = "returned"
    /\ sm.spacing = <<RInt(2), RInt(4)>>
    /\ smCall.v = MkField("square", <<3, 3>>)
    /\ smI = 4
    /\ MaxAbs(smRet) # MaxAbs(smCall.v)
    /\ RLeq(MaxAbs(smRet), MaxAbs(smCall.v))

\* the filter a Fourier smoother builds from the attributes of s
FilterOf(s) == GaussianFourierSmoother_create_filter(s).FFilter

ScalarCalls == {"smooth_scalar_field", "inverse_smooth_scalar_field"}
InverseCalls == {"inverse_smooth_scalar_field", "inverse_smooth_vector_field",
                 "inverse_smooth_vector_field_multiN"}

\* C17: set_gaussian_std clears the cached filter: a filter the Fourier
\* smoother holds is the one built from its current standard deviation, and
\* the filter a smooth or inverse_smooth call uses is built from the standard
\* deviation the smoother has at the call.
C17_FilterFollowsStd ==
    sm.cls = "GaussianFourierSmoother" =>
        /\ sm.FFilter # NoValue => sm.FFilter = FilterOf(sm)
        /\ (smPc = "returned" /\ smCall.op \in ScalarCalls) =>
            \A idx \in DOMAIN smRet.val : smRet.val[idx].elems[2] = FilterOf(smCall.self)

\* C18: a Fourier smoother holds no filter after construction; the first
\* smooth_scalar_field or inverse_smooth_scalar_field call builds the filter,
\* no later call builds one again, and every call uses the filter held.
C18_FilterBuiltOnce ==
    sm.cls = "GaussianFourierSmoother" =>
        /\ smCalls = 0 => (smBuilds = 0 /\ sm.FFilter = NoValue)
        /\ smBuilds <= 1
        /\ smBuilds = 1 <=> sm.FFilter # NoValue
        /\ (smPc = "returned" /\ smCall.op \in ScalarCalls) =>
            /\ smBuilds = 1
            /\ \A idx \in DOMAIN smRet.val : smRet.val[idx].elems[2] = sm.FFilter
            /\ smCall.self.FFilter # NoValue => sm.FFilter = smCall.self.FFilter

C18_Witness ==
    /\ sm.cls = "GaussianFourierSmoother"
    /\ smPc = "returned"
    /\ smCall.op = "inverse_smooth_scalar_field"
    /\ smCall.self.FFilter # NoValue
    /\ smCalls = 3
    /\ smBuilds = 1
    /\ sm.FFilter = FilterOf(sm)
    /\ \E idx \in DOMAIN smRet.val : smRet.val[idx].elems[2] = sm.FFilter

\* C19: inverse smoothing of a scalar field, a vector field or a batch on a
\* diffusion or a spatial-Gaussian smoother raises ValueError, returns no
\* field and leaves the smoother as it was; on a Fourier smoother it returns.
C19_InverseUnsupported ==
    smCall.op \in InverseCalls =>
        IF smCall.self.cls \in {"DiffusionSmoother", "GaussianSpatialSmoother"}
        THEN /\ smPc = "raised"
             /\ smErr = "ValueError"
             /\ smRet = NoField
             /\ sm = smCall.self
        ELSE smPc = "returned"

\* C20: smooth_scalar_field of a spatial-Gaussian smoother returns a field of
\* the shape of its argument, having built a kernel of size 2k+1 per axis
\* (k = 5 without k_sz_h, k = k_sz_h otherwise) and a padding of k per side,
\* and holds the filter afterwards, so that no later call builds it again.
C20_SpatialSmooth ==
    (smCall.op = "smooth_scalar_field" /\ smCall.self.cls = "GaussianSpatialSmoother") =>
        LET k == IF smCall.self.k_sz_h = NoValue THEN 5 ELSE smCall.self.k_sz_h.elems[1]
        IN  /\ smPc = "returned"
            /\ smRet.shape = smCall.v.shape
            /\ sm.filter # NoValue
            /\ sm.k_sz = [a \in 1..sm.dim |-> 2 * k + 1]
            /\ sm.required_padding = [a \in 1..sm.dim |-> k]
            /\ smBuilds = 1

(***************************************************************************)
(* Properties of the integrators: the inputs of a call and the step count. *)
(***************************************************************************)

C30_ZeroStepsFails ==
    rkCall.op = "solve" /\ rk.nrOfTimeSteps = 0 =>
        /\ rkPc = "raised"
        /\ rkRet = NoValue
        /\ rkStepLog = <<>>
        /\ rkFLog = <<>>
        /\ rkCall.x.kind = "list" => rkErr = "IndexError"

\* solve was called on a non-empty list over a non-empty interval with the
\* step count 0
C30_Witness ==
    /\ rkCall.op = "solve"
    /\ rk.nrOfTimeSteps = 0
    /\ rkCall.x.kind = "list"
    /\ Len(rkCall.x.elems) >= 1
    /\ rkCall.fromT # rkCall.toT
    /\ rkPc = "raised"
    /\ rkErr = "IndexError"

(***************************************************************************)
(* Properties of the finite-difference engine: central differences and the *)
(* spacing an engine keeps.                                                *)
(***************************************************************************)
ForwardOf(op) ==
    CASE op = "dXc" -> "dXf" [] op = "dYc" -> "dYf" [] op = "dZc" -> "dZf"
BackwardOf(op) ==
    CASE op = "dXc" -> "dXb" [] op = "dYc" -> "dYb" [] op = "dZc" -> "dZb"

\* the points that have both neighbours along axis a
Interior(shape, a) == {idx \in Idx(shape) : idx[a] > 0 /\ idx[a] < shape[a] - 1}

\* C23: whenever a central difference dXc, dYc or dZc has returned, under
\* either boundary policy, the forward and the backward difference of the
\* same field along the same axis return too, and at every interior point
\* the central difference is half their sum.
C23_CentralIsMean ==
    (fdCall.op \in {"dXc", "dYc", "dZc"} /\ fdPc = "returned") =>
        LET f == Apply(ForwardOf(fdCall.op), fdEngine, fdCall.I)
            b == Apply(BackwardOf(fdCall.op), fdEngine, fdCall.I)
        IN  /\ f.ok
            /\ b.ok
            /\ fdOut.shape = fdCall.I.shape
            /\ \A idx \in Interior(fdCall.I.shape, AxisOf(fdCall.op)) :
                    fdOut.val[idx] = RDiv(RAdd(f.val.val[idx], b.val.val[idx]), RInt(2))

\* dYc has returned for a field with an interior point along Y where the
\* central difference is not zero
C23_Witness ==
    /\ fdCall.op = "dYc"
    /\ fdPc = "returned"
    /\ fdEngine.dim = 3
    /\ \E idx \in Interior(fdCall.I.shape, 2) : fdOut.val[idx] # RInt(0)

\* C26: the spacing and the dimension of an engine never change after its
\* construction: no step, an engine operation or a store of the caller into
\* the array it passed to the constructor, changes them.
C26_SpacingFixed ==
    [][ (fdEngine # NoEngine /\ fdEngine' # NoEngine) =>
            /\ fdEngine'.spacing = fdEngine.spacing
            /\ fdEngine'.dim = fdEngine.dim ]_vars

(***************************************************************************)
(* Properties of the smoothers: vector fields and batches.                 *)
(***************************************************************************)
BatchedOps ==
    {"smooth_vector_field", "smooth_vector_field_multiN",
     "smooth_scalar_field_multiC", "smooth_scalar_field_multiNC"}

\* the call of the smoother s, alone, that the batched method op makes for
\* one slice of its argument
SliceCall(op, s, slice) ==
    CASE op = "smooth_vector_field" -> smooth_scalar_field(s, slice)
      [] op = "smooth_vector_field_multiN" -> smooth_vector_field(s, slice)
      [] op = "smooth_scalar_field_multiC" -> smooth_scalar_field(s, slice)
      [] op = "smooth_scalar_field_multiNC" -> smooth_scalar_field_multiC(s, slice)

\* the call returned a tensor of the shape of its argument whose slice k is
\* what the smoother, as it was at the call, returns for slice k alone
Slicewise(op, s, v) ==
    /\ smPc = "returned"
    /\ smRet.shape = v.shape
    /\ DOMAIN smRet.val = DOMAIN v.val
    /\ \A k \in 0..(v.shape[1] - 1) :
            \E e \in {SliceCall(op, s, Sub(v, k))} :
                e.ok /\ Sub(smRet, k) = e.val

\* C21: for every smoother class, smooth_vector_field(v) returns a field of
\* the shape of v whose component c is smooth_scalar_field(v[c]) (with one
\* dimension it is smooth_scalar_field(v) itself), and
\* smooth_vector_field_multiN, smooth_scalar_field_multiC and
\* smooth_scalar_field_multiNC return the results of their items stacked
\* along the leading axis, each computed from the item alone.
C21_VectorByComponents ==
    (smCall.op \in BatchedOps /\ smPc \in {"returned", "raised"}) =>
        IF smCall.op = "smooth_vector_field" /\ smCall.self.dim = 1
        THEN \E e \in {smooth_scalar_field(smCall.self, smCall.v)} :
                smPc = "returned" /\ e.ok /\ smRet = e.val
        ELSE Slicewise(smCall.op, smCall.self, smCall.v)

(***************************************************************************)
(* Properties of the factories.                                            *)
(***************************************************************************)
\* the type a create call had to go by: the one of the configuration, the
\* default of the factory f when the configuration has none
RequestedType(f) == IF facCall.type = "absent" THEN f.default_type ELSE facCall.type

\* C22: create_smoother and create_regularizer, given a configuration whose
\* type (or, without one, the factory default) is not a recognized name,
\* raise ValueError and return no object.
C22_UnknownTypeRejected ==
    /\ (facCall.op = "create_smoother" /\ RequestedType(fac) \notin SmootherTypes) =>
            facPc = "raised" /\ facErr = "ValueError" /\ facSm = NoSmoother
    /\ (facCall.op = "create_regularizer" /\ RequestedType(rfac) # "helmholtz") =>
            facPc = "raised" /\ facErr = "ValueError" /\ facReg = NoReg

ClassOfType(type) ==
    CASE type = "diffusion" -> "DiffusionSmoother"
      [] type = "gaussian" -> "GaussianFourierSmoother"
      [] type = "gaussianSpatial" -> "GaussianSpatialSmoother"

\* C28: the default type of a smoother factory is 'gaussian' until a
\* set_default_smoother_type_to_* call, and then the type of the last such
\* call; create_smoother on a factory of one to three dimensions, with a
\* configuration whose type is recognized or absent, returns one smoother, of
\* the class of the configuration's type when it has one and of the default
\* type otherwise; and no step that changes the default changes the smoother
\* created before.
C28_TypeSelectsVariant ==
    [][ /\ fac' # NoFactory =>
            fac'.default_type = (IF facLastSet' = "none" THEN "gaussian" ELSE facLastSet')
        /\ (/\ facCall'.op = "create_smoother"
            /\ facCall'.type \in SmootherTypes \cup {"absent"}
            /\ fac'.dim \in {1, 2, 3}) =>
                /\ facPc' = "returned"
                /\ facSm'.cls = ClassOfType(IF facCall'.type = "absent"
                                            THEN (IF facLastSet' = "none" THEN "gaussian"
                                                  ELSE facLastSet')
                                            ELSE facCall'.type)
                /\ facSm'.sz = fac'.sz
                /\ facSm'.spacing = fac'.spacing
        /\ (fac # NoFactory /\ fac' # NoFactory /\ fac'.default_type # fac.default_type) =>
                facKept' = facKept ]_vars

\* a factory whose default was changed to 'diffusion' has returned, for a
\* configuration of type 'gaussianSpatial', a spatial smoother, while the
\* caller holds a Fourier smoother created before
C28_Witness ==
    /\ facCall.op = "create_smoother"
    /\ facPc = "returned"
    /\ facLastSet = "diffusion"
    /\ facCall.type = "gaussianSpatial"
    /\ facSm.cls = "GaussianSpatialSmoother"
    /\ facKept.cls = "GaussianFourierSmoother"

\* a factory whose default was changed to 'diffusion' has returned a diffusion
\* smoother for a configuration without a type
C28_WitnessDefault ==
    /\ facCall.op = "create_smoother"
    /\ facPc = "returned"
    /\ facLastSet = "diffusion"
    /\ facCall.type = "absent"
    /\ facSm.cls = "DiffusionSmoother"

(***************************************************************************)
(* The round trip through a Fourier-Gaussian smoother.  The convolutions   *)
(* of custom_pytorch_extensions are evaluated as spec.md describes them:   *)
(* the forward one multiplies the transform of the field by the filter,    *)
(* the inverse one divides it.  The transform is the discrete Fourier      *)
(* transform, which for axes of one or two points has rational entries.    *)
(***************************************************************************)

\* the transform of A along axis a
TransformAxis(A, shape, a) ==
    Stored([idx \in DOMAIN A |->
              IF shape[a] = 1 THEN A[idx]
              ELSE IF idx[a] = 0 THEN RAdd(A[idx], A[Up(idx, a)])
              ELSE RSub(A[Down(idx, a)], A[idx])])

\* the transform of A along the axes 1..a
RECURSIVE TransformAxes(_, _, _)
TransformAxes(A, shape, a) ==
    IF a = 0 THEN A ELSE TransformAxis(TransformAxes(A, shape, a - 1), shape, a)

fft(A, shape) == TransformAxes(A, shape, Len(shape))
ifft(A, shape) ==
    LET T == fft(A, shape)
    IN  Stored([idx \in DOMAIN A |-> RDiv(T[idx], RInt(Size(shape)))])

\* ce.fourier_convolution and ce.inverse_fourier_convolution of the field A
\* with a filter of entries E
fourier_convolution(A, shape, E) ==
    LET T == fft(A, shape)
    IN  ifft(Stored([idx \in DOMAIN A |-> RMul(T[idx], E[idx])]), shape)
inverse_fourier_convolution(A, shape, E) ==
    LET T == fft(A, shape)
    IN  ifft(Stored([idx \in DOMAIN A |-> RDiv(T[idx], E[idx])]), shape)

\* filters without a zero entry: all ones, decreasing with the frequency,
\* and of alternating sign
FilterKinds == {"flat", "lowpass", "signed"}
RECURSIVE IdxSum(_)
IdxSum(idx) == IF idx = <<>> THEN 0 ELSE idx[1] + IdxSum(Tail(idx))
FilterEntries(kind, A) ==
    Stored([idx \in DOMAIN A |->
              CASE kind = "flat" -> RInt(1)
                [] kind = "lowpass" -> Frac(1, 1 + IdxSum(idx))
                [] kind = "signed" -> IF IdxSum(idx) % 2 = 0 THEN RInt(2) ELSE Frac(-1, 3)])

\* the function of ce an element of a returned field names, applied
Applied(name, A, shape, E) ==
    CASE name = "fourier_convolution" -> fourier_convolution(A, shape, E)
      [] name = "inverse_fourier_convolution" -> inverse_fourier_convolution(A, shape, E)

\* R is the field an inverse call returned for the result of a smoothing
\* call of the field v: both calls were given the same filter, and with
\* entries of the given kind for that filter the values of R are those of v
RoundTrips(R, v, kind) ==
    LET outer == R.val[CHOOSE idx \in DOMAIN R.val : TRUE]
        S == outer.elems[1]
        inner == S[CHOOSE idx \in DOMAIN S : TRUE]
        E == FilterEntries(kind, v.val)
    IN  /\ \A idx \in DOMAIN R.val :
                R.val[idx] = External(outer.kind, <<S, outer.elems[2], idx>>)
        /\ \A idx \in DOMAIN S :
                S[idx] = External(inner.kind, <<inner.elems[1], inner.elems[2], idx>>)
        /\ outer.elems[2] = inner.elems[2]
        /\ inner.elems[1] = v.val
        /\ Applied(outer.kind, Applied(inner.kind, v.val, v.shape, E), v.shape, E) = v.val

\* the pairs of a scalar field of the result and the scalar field of the
\* argument it answers: the field itself, the components of a vector field,
\* the components of the items of a batch
ScalarPairs(op, R, v) ==
    CASE op = "inverse_smooth_scalar_field" -> {<<R, v>>}
      [] op = "inverse_smooth_vector_field" ->
            {<<Sub(R, d), Sub(v, d)>> : d \in 0..(v.shape[1] - 1)}
      [] op = "inverse_smooth_vector_field_multiN" ->
            {<<Sub(Sub(R, n), d), Sub(Sub(v, n), d)>> :
                n \in 0..(v.shape[1] - 1), d \in 0..(v.shape[2] - 1)}

\* a round trip has returned: a Fourier-Gaussian smoother has returned from
\* the inverse method it was given the result of its smoothing method for.
\* In one dimension the vector methods pass the whole vector field to the
\* scalar method, whose filter has one axis less than the field
RoundTripReturned ==
    /\ smPc = "returned"
    /\ smCall.self.cls = "GaussianFourierSmoother"
    /\ smCall.orig # NoField
    /\ smCall.op = "inverse_smooth_scalar_field" \/ smCall.self.dim > 1

C27_SingleInitialization ==
    [][ /\ thBuilds' <= 1
        /\ \A t \in Threads : thPc'[t] = "returned" => CachedFilter(thSm') # NoValue
        /\ (CachedFilter(thSm) # NoValue /\ thSm' # NoSmoother) =>
                thBuilds' = thBuilds ]_vars
====
